---- MODULE Spec2Model ----
(***************************************************************************)
(* OMEMO end-to-end encryption core of QXmpp (QXmppOmemoManagerPrivate):   *)
(* the per-device fan-out of encryptStanza, the symmetric payload cipher,  *)
(* the decryption pipeline and the liveness counters.                      *)
(***************************************************************************)
EXTENDS Integers, Sequences, FiniteSets, TLC

VARIABLES
    WITH_OMEMO_V03,           \* build flag: legacy OMEMO 0.3 code paths compiled in
    devices,                  \* per manager: QHash<QString, QHash<uint32_t, Device>>
    omemoStorage,             \* per manager: devices held by the storage collaborator
    trustLevels,              \* per manager: trust manager's level per (jid, key id)
    securityPolicy,           \* per manager: trust manager's security policy
    maximumDevicesPerStanza,  \* per manager
    calls,                    \* per manager: the encryptStanza calls made so far
    now,                      \* current date, in weeks
    wire,                     \* stanzas handed to the client for sending
    decryptions,              \* per manager: the decryptMessage / decryptIq calls made so far
    cipherRuns,               \* trace of the payload cipher: runs of decryptPayload
    maximumDevicesPerJid,     \* per manager
    pepService,               \* PEP service of alice's account: announced features and nodes
    publishing,               \* per manager: the publishOmemoData call under way
    updates,                  \* per manager: the updateDevices calls made so far
    ownData,                  \* per manager: own device, key pairs, device bundle, their storage
    operations,               \* per manager: the call of buildSession or setUpDeviceId under way
    subscriptions             \* per manager: the subscriptions to device lists requested so far

pubSubVars == <<maximumDevicesPerJid, pepService, publishing, updates, ownData,
               operations, subscriptions>>

vars == <<WITH_OMEMO_V03, devices, omemoStorage, trustLevels, securityPolicy,
          maximumDevicesPerStanza, calls, now, wire, decryptions, cipherRuns, pubSubVars>>

-----------------------------------------------------------------------------
(* Bounds of the model *)

SmallDeviceCap == 2      \* a value of setMaximumDevicesPerStanza() below the device count
SmallJidCap == 2         \* a value of setMaximumDevicesPerJid() below the length of a device list
MaxPublications == 2     \* calls of publishOmemoData in one behaviour
MaxUpdates == 2          \* calls of updateDevices in one behaviour
MaxWeeks == 28           \* last date the clock reaches
MaxRenewals == 3         \* pre keys consumed in one behaviour
MaxGenerations == 2      \* device ids generated by one call of setUpDeviceId
MaxConcurrentCalls == 2  \* calls of encryptStanza under way at the same time

-----------------------------------------------------------------------------
(* Program constants *)

UNRESPONDED_STANZAS_UNTIL_ENCRYPTION_IS_STOPPED == 106
UNRESPONDED_STANZAS_UNTIL_HEARTBEAT_MESSAGE_IS_SENT == 53
DEVICES_PER_STANZA_MAX == 1000
DEVICES_PER_JID_MAX == 200
DEVICE_REMOVAL_INTERVAL == 12            \* 24h * 7 * 12, with the clock counting weeks
PRE_KEY_ID_MIN == 1
SIGNED_PRE_KEY_ID_MIN == 1
PRE_KEY_ID_MAX == 2147483647             \* INT32_MAX
SIGNED_PRE_KEY_ID_MAX == 2147483647      \* INT32_MAX
PRE_KEY_INITIAL_CREATION_COUNT == 100
SIGNED_PRE_KEY_RENEWAL_INTERVAL == 4     \* 24h * 7 * 4, with the clock counting weeks
EMPTY_MESSAGE_DECRYPTION_DATA_SIZE == 32
HKDF_KEY_SIZE == 32
PAYLOAD_MESSAGE_AUTHENTICATION_CODE_SIZE == 16

TrustLevel == {"Undecided", "AutomaticallyDistrusted", "ManuallyDistrusted",
               "AutomaticallyTrusted", "ManuallyTrusted", "Authenticated"}

ACCEPTED_TRUST_LEVELS == {"AutomaticallyTrusted", "ManuallyTrusted", "Authenticated"}

TrustSecurityPolicy == {"NoSecurityPolicy", "Toakafa"}

-----------------------------------------------------------------------------
(* The two accounts and their devices *)

Managers == {"A", "B"}

ownBareJid(m) == IF m = "A" THEN "alice" ELSE "bob"

ownDevice(m) == IF m = "A" THEN [id |-> 9, label |-> "phone"] ELSE [id |-> 2, label |-> "desk"]

AllAddr == {<<"alice", 1>>, <<"alice", 9>>, <<"bob", 2>>, <<"bob", 3>>}

\* public identity key published in the bundle of a device: a version byte and the key
IdentityKeyOf(a) == <<5, a[2]>>

createKeyId(key) == Tail(key)

TrustKey(a) == <<a[1], createKeyId(IdentityKeyOf(a))>>

TrustKeys == {TrustKey(a) : a \in AllAddr}

\* QXmppOmemoStorage::Device, default-constructed
DefaultDevice ==
    [keyId |-> <<>>, session |-> <<>>,
     unrespondedSentStanzasCount |-> 0, unrespondedReceivedStanzasCount |-> 0,
     removalFromDeviceListDate |-> 0, label |-> ""]

\* devices.value(jid).value(deviceId)
deviceValue(devs, a) == IF a \in DOMAIN devs THEN devs[a] ELSE DefaultDevice

\* devices[jid][deviceId] = d  (operator[] inserts a missing entry)
devicePut(devs, a, d) == [x \in DOMAIN devs \cup {a} |-> IF x = a THEN d ELSE devs[x]]

deviceErase(devs, S) == [x \in DOMAIN devs \ S |-> devs[x]]

\* QFlags<TrustLevel>::testFlag
testFlag(flags, flag) == flag \in flags

-----------------------------------------------------------------------------
(* Byte strings of the symmetric layer, as symbolic terms *)

PayloadKeys == {1, 2}        \* values of the random key of encryptPayload
Ivs == {1, 2}                \* values of the random initialisation vector (OMEMO 0.3)

\* characters of a stanza's content: ASCII text, XML markup, a character outside Latin-1
Chars == {"a", "<", "U+20AC"}

Latin1 == {"a", "<", "?"}

\* serialized plaintext handed to the payload cipher
EmptyPlain == [sce |-> FALSE, to |-> "", from |-> "", content |-> <<>>]

EmptyBytes == [alg |-> "none", key |-> <<"none", 0>>, iv |-> <<"none", 0>>, pt |-> EmptyPlain]

NoTag == [key |-> <<"none", 0>>, over |-> EmptyBytes, size |-> 0]

\* default-constructed QCA::SecureArray
EmptyData == [key |-> 0, tag |-> NoTag, size |-> 0]

\* QCA::HKDF().makeKey(hkdfKey, salt, info, HKDF_OUTPUT_SIZE), split into its three parts
hkdfOutput(hkdfKey) ==
    [encryptionKey |-> <<"enc", hkdfKey>>,
     authenticationKey |-> <<"auth", hkdfKey>>,
     initializationVector |-> <<"iv", hkdfKey>>]

\* QCA::MessageAuthenticationCode(hmac(sha256), key).process(bytes), resized to 16 bytes
messageAuthenticationCode(authenticationKey, bytes) ==
    [key |-> authenticationKey, over |-> bytes, size |-> PAYLOAD_MESSAGE_AUTHENTICATION_CODE_SIZE]

\* QCA::Cipher(aes256, CBC, PKCS7, Encode, key, iv).process(payload)
cbcEncode(key, iv, payload) == [alg |-> "aes256-cbc", key |-> key, iv |-> iv, pt |-> payload]

\* QCA::Cipher(aes256, CBC, PKCS7, Decode, key, iv).process(bytes)
cbcDecode(key, iv, bytes) ==
    IF bytes.alg = "aes256-cbc" /\ bytes.key = key /\ bytes.iv = iv THEN bytes.pt ELSE EmptyPlain

\* QCA::Cipher(aes128, GCM, NoPadding, Encode, key, iv, tag).process(payload)
gcmEncode(key, iv, payload) ==
    IF payload = EmptyPlain THEN EmptyBytes
    ELSE [alg |-> "aes128-gcm", key |-> <<"gcm", key>>, iv |-> <<"gcm-iv", iv>>, pt |-> payload]

\* QCA::Cipher::tag() after encoding
gcmTag(key, iv, bytes) == [key |-> <<"gcm", key, iv>>, over |-> bytes, size |-> 16]

\* QCA::Cipher(aes128, GCM, NoPadding, Decode, key, iv, tag).process(bytes): the tag is
\* checked when the cipher is finalised and process() yields nothing if it does not match
gcmDecode(key, iv, tag, bytes) ==
    IF /\ bytes.alg = "aes128-gcm" /\ bytes.key = <<"gcm", key>> /\ bytes.iv = <<"gcm-iv", iv>>
       /\ tag = gcmTag(key, iv, bytes)
    THEN bytes.pt ELSE EmptyPlain

NoEncryptionResult ==
    [ok |-> FALSE, decryptionData |-> EmptyData, encryptedPayload |-> EmptyBytes, iv |-> 0]

\* ManagerPrivate::encryptPayload; key and iv are the random values drawn by QCA
encryptPayload(payload, key, iv) ==
    IF WITH_OMEMO_V03 THEN
        LET encryptedPayload == gcmEncode(key, iv, payload) IN
        IF encryptedPayload = EmptyBytes THEN NoEncryptionResult
        ELSE [ok |-> TRUE,
              decryptionData |-> [key |-> key, tag |-> gcmTag(key, iv, encryptedPayload),
                                  size |-> 32],
              encryptedPayload |-> encryptedPayload,
              iv |-> iv]
    ELSE
        LET hkdf == hkdfOutput(key)
            encryptedPayload == cbcEncode(hkdf.encryptionKey, hkdf.initializationVector, payload)
        IN IF encryptedPayload = EmptyBytes THEN NoEncryptionResult
           ELSE [ok |-> TRUE,
                 decryptionData |->
                     [key |-> key,
                      tag |-> messageAuthenticationCode(hkdf.authenticationKey, encryptedPayload),
                      size |-> HKDF_KEY_SIZE + PAYLOAD_MESSAGE_AUTHENTICATION_CODE_SIZE],
                 encryptedPayload |-> encryptedPayload,
                 iv |-> 0]

\* a comparison of the sizes of the two authentication codes only
macSizesMatch(messageAuthenticationCode_, expectedMessageAuthenticationCode) ==
    messageAuthenticationCode_.size = expectedMessageAuthenticationCode.size

\* the code's own comparison of the recomputed with the expected authentication code
macMatches(messageAuthenticationCode_, expectedMessageAuthenticationCode) ==
    messageAuthenticationCode_ = expectedMessageAuthenticationCode

\* payloadDecryptionData.toByteArray().right(PAYLOAD_MESSAGE_AUTHENTICATION_CODE_SIZE)
expectedMessageAuthenticationCode(payloadDecryptionData) ==
    IF payloadDecryptionData.size >= HKDF_KEY_SIZE + PAYLOAD_MESSAGE_AUTHENTICATION_CODE_SIZE
    THEN payloadDecryptionData.tag ELSE NoTag

\* ManagerPrivate::decryptPayload(payloadDecryptionData, payload): HKDF + CBC + HMAC.
\* The result records whether the code compared the authentication codes (checked),
\* whether it ran the cipher (ran) and the bytes returned (plain)
decryptPayloadHkdf(payloadDecryptionData, payload) ==
    LET hkdf == hkdfOutput(payloadDecryptionData.key)
        mac == messageAuthenticationCode(hkdf.authenticationKey, payload)
    IN IF ~macMatches(mac, expectedMessageAuthenticationCode(payloadDecryptionData))
       THEN [checked |-> TRUE, verified |-> FALSE, ran |-> FALSE, plain |-> EmptyPlain]
       ELSE [checked |-> TRUE, verified |-> TRUE, ran |-> TRUE,
             plain |-> cbcDecode(hkdf.encryptionKey, hkdf.initializationVector, payload)]

\* ManagerPrivate::decryptPayload(payloadDecryptionData, iv, payload): AES-GCM
decryptPayloadGcm(payloadDecryptionData, iv, payload) ==
    [checked |-> FALSE, verified |-> FALSE, ran |-> TRUE,
     plain |-> gcmDecode(payloadDecryptionData.key, iv, payloadDecryptionData.tag, payload)]

\* the call made by extractSceEnvelope
decryptPayload(payloadDecryptionData, iv, payload) ==
    IF WITH_OMEMO_V03 THEN decryptPayloadGcm(payloadDecryptionData, iv, payload)
    ELSE decryptPayloadHkdf(payloadDecryptionData, payload)

-----------------------------------------------------------------------------
(* Stanzas and the SCE envelope *)

\* a JID with its resource; QXmppUtils::jidToBareJid drops the resource
Jid(bare, resource) == [bare |-> bare, resource |-> resource]

jidToBareJid(jid) == jid.bare

\* QString::toLatin1
toLatin1(text) == [i \in DOMAIN text |-> IF text[i] \in Latin1 THEN text[i] ELSE "?"]

\* ManagerPrivate::createSceEnvelope (timestamp and random padding left out)
createSceEnvelope(m, stanza) ==
    IF WITH_OMEMO_V03 THEN
        [sce |-> FALSE, to |-> "", from |-> "",
         content |-> IF stanza.isMessage THEN toLatin1(stanza.content) ELSE stanza.content]
    ELSE
        [sce |-> TRUE, to |-> jidToBareJid(stanza.to), from |-> ownBareJid(m),
         content |-> stanza.content]

-----------------------------------------------------------------------------
(* The OMEMO element and its envelopes *)

NoEnvelopeData == [sender |-> <<"", 0>>, recipient |-> <<"", 0>>, plain |-> EmptyData]

\* QXmppOmemoEnvelope, default-constructed
DefaultEnvelope ==
    [recipientDeviceId |-> 0, isUsedForKeyExchange |-> FALSE, data |-> NoEnvelopeData, iv |-> 0]

\* QXmppOmemoElement, default-constructed; m_envelopes is a multi map from the recipient's
\* bare JID to envelopes, kept here as the sequence of its (jid, envelope) entries
DefaultElement ==
    [senderDeviceId |-> 0, payload |-> EmptyBytes, iv |-> 0, envelopes |-> <<>>]

\* QXmppOmemoElement::addEnvelope: QMultiMap::insert keeps earlier entries of the same key
addEnvelope(element, recipientJid, envelope) ==
    [element EXCEPT !.envelopes = Append(@, [jid |-> recipientJid, envelope |-> envelope])]

\* QXmppOmemoElement::searchEnvelope; the result is the sequence of matches, of which the
\* code returns the first
matchingEnvelopes(element, recipientJid, recipientDeviceId) ==
    SelectSeq(element.envelopes,
              LAMBDA e : /\ e.envelope.recipientDeviceId = recipientDeviceId
                         /\ (WITH_OMEMO_V03 \/ e.jid = recipientJid))

searchEnvelope(element, recipientJid, recipientDeviceId) ==
    LET found == matchingEnvelopes(element, recipientJid, recipientDeviceId)
    IN IF found = <<>> THEN [found |-> FALSE, envelope |-> DefaultEnvelope]
       ELSE [found |-> TRUE, envelope |-> found[1].envelope]

-----------------------------------------------------------------------------
(* The ratchet library behind the session store callbacks *)

\* a stored session record (the bytes are opaque to the manager)
SessionRecord == <<1>>

\* a store_session_func that hands the session to the storage and leaves the device in
\* memory as it is
storeSessionInStorageOnly(st, a, session) ==
    [st EXCEPT !.omemoStorage =
                   devicePut(@, a, [deviceValue(st.devices, a) EXCEPT !.session = session])]

\* store_session_func: devices[jid][deviceId].session = session; omemoStorage->addDevice
storeSession(st, a, session) ==
    LET device == [deviceValue(st.devices, a) EXCEPT !.session = session]
    IN [st EXCEPT !.devices = devicePut(@, a, device),
                  !.omemoStorage = devicePut(@, a, device)]

\* load_session_func: the session of devices.value(jid).value(deviceId), if not empty
loadSession(devs, a) == deviceValue(devs, a).session

\* ManagerPrivate::createOmemoEnvelopeData: session_cipher_encrypt needs the stored session
\* and stores the advanced session; libOk is the outcome of the library call.
\* Yields the state and the data (NoEnvelopeData on failure)
createOmemoEnvelopeData(st, m, a, payloadDecryptionData, libOk) ==
    IF loadSession(st.devices, a) = <<>> \/ ~libOk
    THEN [st |-> st, data |-> NoEnvelopeData]
    ELSE [st |-> storeSession(st, a, loadSession(st.devices, a)),
          data |-> [sender |-> <<ownBareJid(m), ownDevice(m).id>>, recipient |-> a,
                    plain |-> payloadDecryptionData]]

\* a device bundle as fetched from the PubSub service
DeviceBundle(a, wellFormed) == [publicIdentityKey |-> IdentityKeyOf(a), wellFormed |-> wellFormed]

NoBundle == [publicIdentityKey |-> <<>>, wellFormed |-> FALSE]

\* ManagerPrivate::buildSession: session_builder_process_pre_key_bundle stores the session
\* through store_session_func when it accepts the bundle
buildSession(st, a, deviceBundle) ==
    IF deviceBundle.wellFormed
    THEN [st |-> storeSession(st, a, SessionRecord), ok |-> TRUE]
    ELSE [st |-> st, ok |-> FALSE]

-----------------------------------------------------------------------------
(* The trust manager *)

\* QXmppOmemoManager::trustLevel(jid, keyId)
trustLevelOf(trust, jid, keyId) ==
    IF <<jid, keyId>> \in DOMAIN trust THEN trust[<<jid, keyId>>] ELSE "Undecided"

\* trustManager->hasKey(ns, jid, level)
hasKey(trust, jid, level) == \E k \in DOMAIN trust : k[1] = jid /\ trust[k] = level

\* ManagerPrivate::storeKey -> trustManager->addKeys(ns, jid, {createKeyId(key)}, level)
storeKey(trust, jid, key, level) ==
    [k \in DOMAIN trust \cup {<<jid, createKeyId(key)>>} |->
        IF k = <<jid, createKeyId(key)>> THEN level ELSE trust[k]]

\* ManagerPrivate::storeKeyDependingOnSecurityPolicy: the level the key is stored with
levelBySecurityPolicy(policy, trust, jid) ==
    IF policy = "NoSecurityPolicy" THEN "AutomaticallyDistrusted"
    ELSE IF hasKey(trust, jid, "Authenticated") THEN "AutomaticallyDistrusted"
    ELSE "AutomaticallyTrusted"

-----------------------------------------------------------------------------
(* encryptStanza: the call record and the per-device continuations *)

\* std::optional<QXmppOmemoElement> reported through the future interface
NoElement == [hasElement |-> FALSE, element |-> DefaultElement]

SomeElement(element) == [hasElement |-> TRUE, element |-> element]

\* one iteration of the loop over the recipients' devices with the values its lambdas
\* captured; pc names the future the iteration waits for
NewTask(a, device, pc) ==
    [jid |-> a[1], deviceId |-> a[2], pc |-> pc, device |-> device,
     trustLevel |-> "Undecided", deviceBeingModified |-> DefaultDevice,
     deviceBundle |-> NoBundle]

RECURSIVE SetToSeq(_)
SetToSeq(S) ==
    IF S = {} THEN <<>>
    ELSE LET x == CHOOSE x \in S : \A y \in S : x <= y IN <<x>> \o SetToSeq(S \ {x})

\* devices.value(jid), in iteration order
devicesOfJid(devs, jid) ==
    LET ids == SetToSeq({a[2] : a \in {b \in DOMAIN devs : b[1] = jid}})
    IN [i \in DOMAIN ids |-> <<jid, ids[i]>>]

RECURSIVE recipientAddresses(_, _)
recipientAddresses(devs, recipientJids) ==
    IF recipientJids = <<>> THEN <<>>
    ELSE devicesOfJid(devs, Head(recipientJids)) \o recipientAddresses(devs, Tail(recipientJids))

\* reportFinishedResult(interface, result)
reportFinishedResult(call, result) == [call EXCEPT !.results = Append(@, result)]

\* the lambda controlDeviceProcessing of encryptStanza
controlDeviceProcessing(m, call, isSuccessful) ==
    LET successful == call.successfullyProcessedDevicesCount + (IF isSuccessful THEN 1 ELSE 0)
        processed == call.processedDevicesCount + 1
        counted == [call EXCEPT !.successfullyProcessedDevicesCount = successful,
                                !.processedDevicesCount = processed]
    IN IF processed = call.devicesCount
       THEN IF successful = 0 THEN reportFinishedResult(counted, NoElement)
            ELSE LET element == [call.omemoElement EXCEPT
                                    !.senderDeviceId = ownDevice(m).id,
                                    !.payload = call.payloadEncryptionResult.encryptedPayload]
                 IN reportFinishedResult([counted EXCEPT !.omemoElement = element],
                                         SomeElement(element))
       ELSE counted

\* the lambda addOmemoEnvelope of encryptStanza; st holds devices, omemoStorage and call
addOmemoEnvelope(st, m, task, isKeyExchange, libOk) ==
    LET a == <<task.jid, task.deviceId>>
        r == createOmemoEnvelopeData(st, m, a, st.call.payloadEncryptionResult.decryptionData,
                                     libOk)
    IN IF r.data = NoEnvelopeData
       THEN [st EXCEPT !.call = controlDeviceProcessing(m, @, FALSE)]
       ELSE IF a \in DOMAIN r.st.devices
       THEN LET device == [r.st.devices[a] EXCEPT
                              !.unrespondedReceivedStanzasCount = 0,
                              !.unrespondedSentStanzasCount = @ + 1]
                omemoEnvelope == [recipientDeviceId |-> task.deviceId,
                                  isUsedForKeyExchange |-> isKeyExchange,
                                  data |-> r.data, iv |-> 0]
            IN [devices |-> devicePut(r.st.devices, a, device),
                omemoStorage |-> devicePut(r.st.omemoStorage, a, device),
                call |-> controlDeviceProcessing(
                             m,
                             [r.st.call EXCEPT
                                 !.omemoElement = addEnvelope(@, task.jid, omemoEnvelope)],
                             TRUE)]
       ELSE r.st

\* a variant of the lambda that builds the session whatever the trust level is
buildSessionWhateverTrustLevel(st, m, task, deviceBundle, trustLevel, libOk) ==
    LET b == buildSession(st, <<task.jid, task.deviceId>>, deviceBundle)
    IN IF ~b.ok THEN [st EXCEPT !.call = controlDeviceProcessing(m, @, FALSE)]
       ELSE addOmemoEnvelope(b.st, m, task, TRUE, libOk)

\* the lambda buildSessionDependingOnTrustLevel of encryptStanza
buildSessionDependingOnTrustLevel(st, m, task, deviceBundle, trustLevel, libOk) ==
    IF ~testFlag(st.call.acceptedTrustLevels, trustLevel)
    THEN [st EXCEPT !.call = controlDeviceProcessing(m, @, FALSE)]
    ELSE LET b == buildSession(st, <<task.jid, task.deviceId>>, deviceBundle)
         IN IF ~b.ok THEN [st EXCEPT !.call = controlDeviceProcessing(m, @, FALSE)]
            ELSE addOmemoEnvelope(b.st, m, task, TRUE, libOk)

\* the loop of encryptStanza over the devices of the recipients: stale devices are skipped,
\* for the others the first future is requested
RECURSIVE fanOut(_, _, _)
fanOut(call, devs, addrs) ==
    IF addrs = <<>> THEN call
    ELSE LET a == Head(addrs)
             device == devs[a]
         IN IF device.unrespondedSentStanzasCount = UNRESPONDED_STANZAS_UNTIL_ENCRYPTION_IS_STOPPED
            THEN LET skipped == call.skippedDevicesCount + 1
                     c1 == [call EXCEPT !.skippedDevicesCount = skipped,
                                        !.tasks = Append(@, NewTask(a, device, "skipped"))]
                 IN fanOut(IF skipped = call.devicesCount
                           THEN reportFinishedResult(c1, NoElement) ELSE c1,
                           devs, Tail(addrs))
            ELSE fanOut([call EXCEPT !.tasks =
                            Append(@, NewTask(a, device,
                                              IF device.keyId = <<>> THEN "requestDeviceBundle"
                                              ELSE "trustLevel"))],
                        devs, Tail(addrs))

\* ManagerPrivate::encryptStanza up to its return: the call as it suspends
startEncryptStanza(m, devs, stanza, recipientJids, acceptedTrustLevels, key, iv) ==
    LET result == encryptPayload(createSceEnvelope(m, stanza), key, iv)
        addrs == recipientAddresses(devs, recipientJids)
        devicesCount == IF Len(addrs) > maximumDevicesPerStanza[m]
                        THEN maximumDevicesPerStanza[m] ELSE Len(addrs)
        call == [stanza |-> stanza, recipientJids |-> recipientJids,
                 acceptedTrustLevels |-> acceptedTrustLevels,
                 payloadEncryptionResult |-> result,
                 devicesCount |-> devicesCount,
                 processedDevicesCount |-> 0,
                 successfullyProcessedDevicesCount |-> 0,
                 skippedDevicesCount |-> 0,
                 omemoElement |-> [DefaultElement EXCEPT !.iv = result.iv],
                 results |-> <<>>,
                 tasks |-> <<>>]
    IN IF ~result.ok THEN reportFinishedResult([call EXCEPT !.devicesCount = 0], NoElement)
       ELSE IF devicesCount = 0 THEN reportFinishedResult(call, NoElement)
       ELSE fanOut(call, devs, addrs)

-----------------------------------------------------------------------------
(* Actions of the encryption pipeline *)

stOf(m, c) == [devices |-> devices[m], omemoStorage |-> omemoStorage[m], call |-> calls[m][c]]

commit(m, c, st) ==
    /\ devices' = [devices EXCEPT ![m] = st.devices]
    /\ omemoStorage' = [omemoStorage EXCEPT ![m] = st.omemoStorage]
    /\ calls' = [calls EXCEPT ![m][c] = st.call]

finished(st, i) == [st EXCEPT !.call.tasks[i].pc = "done"]

\* the continuation ran to its end with trustLevel as its parameter
finishedWith(st, i, trustLevel) ==
    [st EXCEPT !.call.tasks[i].pc = "done", !.call.tasks[i].trustLevel = trustLevel]

Stanza(isMessage, type, from, to, content) ==
    [isMessage |-> isMessage, type |-> type, from |-> from, to |-> to, content |-> content]

\* ManagerPrivate::encryptStanza(stanza, recipientJids, acceptedTrustLevels)
EncryptStanza(m, stanza, recipientJids, acceptedTrustLevels, key, iv) ==
    /\ recipientJids # <<>>
    /\ calls' = [calls EXCEPT ![m] =
                    Append(@, startEncryptStanza(m, devices[m], stanza, recipientJids,
                                                 acceptedTrustLevels, key, iv))]
    /\ UNCHANGED <<pubSubVars, WITH_OMEMO_V03, devices, omemoStorage, trustLevels, securityPolicy,
                   maximumDevicesPerStanza, now, wire, decryptions, cipherRuns>>

\* ManagerPrivate::encryptMessageForRecipients on a started manager: the own bare JID is
\* appended to the recipients
EncryptMessageForRecipients(m, message, recipientJids, acceptedTrustLevels, key, iv) ==
    /\ message.isMessage
    /\ EncryptStanza(m, message, Append(recipientJids, ownBareJid(m)), acceptedTrustLevels,
                     key, iv)

\* encryptStanza, device without key id: continuation of requestDeviceBundle
DeviceBundleFetched(m, c, i, deviceBundle) ==
    /\ c \in DOMAIN calls[m]
    /\ i \in DOMAIN calls[m][c].tasks
    /\ LET task == calls[m][c].tasks[i]
           a == <<task.jid, task.deviceId>>
           st == stOf(m, c)
       IN /\ task.pc = "requestDeviceBundle"
          /\ deviceBundle \in {NoBundle, DeviceBundle(a, TRUE), DeviceBundle(a, FALSE)}
          /\ IF deviceBundle # NoBundle /\ a \in DOMAIN devices[m]
             THEN LET device == [devices[m][a] EXCEPT
                                    !.keyId = createKeyId(deviceBundle.publicIdentityKey)]
                  IN commit(m, c,
                            [st EXCEPT !.devices = devicePut(@, a, device),
                                       !.call.tasks[i] =
                                           [task EXCEPT !.pc = "trustLevelOfBundleKey",
                                                        !.deviceBeingModified = device,
                                                        !.deviceBundle = deviceBundle]])
             ELSE commit(m, c, [finished(st, i) EXCEPT
                                   !.call = controlDeviceProcessing(m, @, FALSE)])
    /\ UNCHANGED <<pubSubVars, WITH_OMEMO_V03, trustLevels, securityPolicy, maximumDevicesPerStanza, now,
                   wire, decryptions, cipherRuns>>

\* encryptStanza, device without key id: continuation of q->trustLevel for the bundle's key
TrustLevelOfBundleKeyRetrieved(m, c, i, libOk) ==
    /\ c \in DOMAIN calls[m]
    /\ i \in DOMAIN calls[m][c].tasks
    /\ LET task == calls[m][c].tasks[i]
           a == <<task.jid, task.deviceId>>
           st == stOf(m, c)
           trustLevel == trustLevelOf(trustLevels[m], task.jid, task.deviceBeingModified.keyId)
       IN /\ task.pc = "trustLevelOfBundleKey"
          /\ IF trustLevel = "Undecided"
             THEN /\ libOk
                  /\ commit(m, c, [st EXCEPT !.call.tasks[i].pc =
                                                 "storeKeyDependingOnSecurityPolicy"])
             ELSE commit(m, c,
                         buildSessionDependingOnTrustLevel(
                             [finishedWith(st, i, trustLevel) EXCEPT
                                 !.omemoStorage = devicePut(@, a, task.deviceBeingModified)],
                             m, task, task.deviceBundle, trustLevel, libOk))
    /\ UNCHANGED <<pubSubVars, WITH_OMEMO_V03, trustLevels, securityPolicy, maximumDevicesPerStanza, now,
                   wire, decryptions, cipherRuns>>

\* encryptStanza, device without key id: continuation of storeKeyDependingOnSecurityPolicy
KeyStoredDependingOnSecurityPolicy(m, c, i, libOk) ==
    /\ c \in DOMAIN calls[m]
    /\ i \in DOMAIN calls[m][c].tasks
    /\ LET task == calls[m][c].tasks[i]
           a == <<task.jid, task.deviceId>>
           st == stOf(m, c)
           trustLevel == levelBySecurityPolicy(securityPolicy[m], trustLevels[m], task.jid)
       IN /\ task.pc = "storeKeyDependingOnSecurityPolicy"
          /\ trustLevels' = [trustLevels EXCEPT ![m] =
                                storeKey(@, task.jid, task.deviceBundle.publicIdentityKey,
                                         trustLevel)]
          /\ commit(m, c,
                    buildSessionDependingOnTrustLevel(
                        [finishedWith(st, i, trustLevel) EXCEPT
                            !.omemoStorage = devicePut(@, a, task.deviceBeingModified)],
                        m, task, task.deviceBundle, trustLevel, libOk))
    /\ UNCHANGED <<pubSubVars, WITH_OMEMO_V03, securityPolicy, maximumDevicesPerStanza, now, wire,
                   decryptions, cipherRuns>>

\* encryptStanza, device with a key id: continuation of q->trustLevel
TrustLevelRetrieved(m, c, i, libOk) ==
    /\ c \in DOMAIN calls[m]
    /\ i \in DOMAIN calls[m][c].tasks
    /\ LET task == calls[m][c].tasks[i]
           st == stOf(m, c)
           trustLevel == trustLevelOf(trustLevels[m], task.jid, task.device.keyId)
       IN /\ task.pc = "trustLevel"
          /\ IF testFlag(calls[m][c].acceptedTrustLevels, trustLevel)
             THEN IF task.device.session = <<>>
                  THEN /\ libOk
                       /\ commit(m, c, [st EXCEPT !.call.tasks[i] =
                                           [task EXCEPT !.pc = "requestDeviceBundleForSession",
                                                        !.trustLevel = trustLevel]])
                  ELSE commit(m, c, addOmemoEnvelope(finishedWith(st, i, trustLevel), m, task,
                                                     FALSE, libOk))
             ELSE /\ libOk
                  /\ commit(m, c, [finishedWith(st, i, trustLevel) EXCEPT
                                      !.call = controlDeviceProcessing(m, @, FALSE)])
    /\ UNCHANGED <<pubSubVars, WITH_OMEMO_V03, trustLevels, securityPolicy, maximumDevicesPerStanza, now,
                   wire, decryptions, cipherRuns>>

\* encryptStanza, device with a key id and no session: continuation of requestDeviceBundle
DeviceBundleForSessionFetched(m, c, i, deviceBundle, libOk) ==
    /\ c \in DOMAIN calls[m]
    /\ i \in DOMAIN calls[m][c].tasks
    /\ LET task == calls[m][c].tasks[i]
           a == <<task.jid, task.deviceId>>
           st == stOf(m, c)
       IN /\ task.pc = "requestDeviceBundleForSession"
          /\ deviceBundle \in {NoBundle, DeviceBundle(a, TRUE), DeviceBundle(a, FALSE)}
          /\ IF deviceBundle # NoBundle
             THEN commit(m, c,
                         buildSessionDependingOnTrustLevel(finished(st, i), m, task,
                                                           deviceBundle, task.trustLevel, libOk))
             ELSE /\ libOk
                  /\ commit(m, c, [finished(st, i) EXCEPT
                                      !.call = controlDeviceProcessing(m, @, FALSE)])
    /\ UNCHANGED <<pubSubVars, WITH_OMEMO_V03, trustLevels, securityPolicy, maximumDevicesPerStanza, now,
                   wire, decryptions, cipherRuns>>

\* what the references deviceId and device may yield once userDevices.erase() has destroyed
\* the entry they point into: the entry's former content, the content of another entry of
\* the same hash, or neither
danglingReads(devs, a) ==
    {[deviceId |-> b[2], keyId |-> devs[b].keyId] : b \in {x \in DOMAIN devs : x[1] = a[1]}}
        \cup {[deviceId |-> 0, keyId |-> <<>>]}

\* ManagerPrivate::removeDevicesRemovedFromServer, run by deviceRemovalTimer
RemoveDevicesRemovedFromServer(m) ==
    LET expired == {a \in DOMAIN devices[m] :
                       /\ devices[m][a].removalFromDeviceListDate # 0
                       /\ now - devices[m][a].removalFromDeviceListDate > DEVICE_REMOVAL_INTERVAL}
    IN /\ expired # {}
       /\ \E reads \in [expired -> UNION {danglingReads(devices[m], a) : a \in expired}] :
             /\ \A a \in expired : reads[a] \in danglingReads(devices[m], a)
             /\ devices' = [devices EXCEPT ![m] = deviceErase(@, expired)]
             /\ omemoStorage' = [omemoStorage EXCEPT ![m] =
                     deviceErase(@, {<<a[1], reads[a].deviceId>> : a \in expired})]
             /\ trustLevels' = [trustLevels EXCEPT ![m] =
                     [k \in {x \in DOMAIN @ : x[2] \notin {reads[a].keyId : a \in expired}}
                         |-> @[k]]]
       /\ UNCHANGED <<pubSubVars, WITH_OMEMO_V03, securityPolicy, maximumDevicesPerStanza,
                      calls, now, wire, decryptions, cipherRuns>>

-----------------------------------------------------------------------------
(* Specification of the encryption fan-out on manager A *)

Bundles == {NoBundle} \cup {DeviceBundle(a, w) : a \in AllAddr, w \in BOOLEAN}

\* the devices manager A may know: another own device and two devices of the contact
RemoteAddrOfA == {<<"alice", 1>>, <<"bob", 2>>, <<"bob", 3>>}

\* a device record as left behind by earlier operations
KnownDevice(a, hasKeyId, hasSession, sent, removalDate) ==
    [keyId |-> IF hasKeyId THEN createKeyId(IdentityKeyOf(a)) ELSE <<>>,
     session |-> IF hasSession THEN SessionRecord ELSE <<>>,
     unrespondedSentStanzasCount |-> sent,
     unrespondedReceivedStanzasCount |-> 0,
     removalFromDeviceListDate |-> removalDate,
     label |-> ""]

\* what manager A may hold for a device: the record and the trust level of the device's key
Known(a, hasKeyId, hasSession, sent, removalDate, level) ==
    [device |-> KnownDevice(a, hasKeyId, hasSession, sent, removalDate), level |-> level]

InitKnownOf(a) ==
    IF a = <<"alice", 1>>
    THEN {Known(a, TRUE, TRUE, 0, 0, "AutomaticallyTrusted"),
          Known(a, TRUE, TRUE, 0, 0, "ManuallyDistrusted"),
          Known(a, TRUE, TRUE, UNRESPONDED_STANZAS_UNTIL_ENCRYPTION_IS_STOPPED, 0,
                "AutomaticallyTrusted")}
    ELSE IF a = <<"bob", 2>>
    THEN {Known(a, FALSE, FALSE, 0, r, l) :
              r \in {0, 1}, l \in {"Undecided", "Authenticated", "ManuallyDistrusted"}}
         \cup {Known(a, TRUE, s, 0, 0, l) :
                  s \in BOOLEAN, l \in {"Authenticated", "ManuallyDistrusted"}}
         \cup {Known(a, TRUE, TRUE, 0, 1, "Authenticated"),
               Known(a, TRUE, TRUE, UNRESPONDED_STANZAS_UNTIL_ENCRYPTION_IS_STOPPED, 0,
                     "Authenticated")}
    ELSE {Known(a, FALSE, FALSE, 0, 0, "Undecided"),
          Known(a, TRUE, TRUE, 0, 0, "AutomaticallyTrusted"),
          Known(a, TRUE, TRUE, UNRESPONDED_STANZAS_UNTIL_ENCRYPTION_IS_STOPPED, 0,
                "AutomaticallyTrusted")}

InitKnown ==
    {f \in UNION {[S -> UNION {InitKnownOf(a) : a \in RemoteAddrOfA}] :
                     S \in {T \in SUBSET RemoteAddrOfA : <<"bob", 2>> \in T}} :
        \A a \in DOMAIN f : f[a] \in InitKnownOf(a)}

registryOf(known) == [a \in DOMAIN known |-> known[a].device]

trustOf(known) ==
    [k \in {TrustKey(a) : a \in DOMAIN known} |->
        LET a == CHOOSE a \in DOMAIN known : TrustKey(a) = k IN known[a].level]

NoRegistry == [a \in {} |-> DefaultDevice]

NoTrust == [k \in {} |-> "Undecided"]

ChatMessage == Stanza(TRUE, "chat", Jid("alice", "phone"), Jid("bob", ""), <<"a">>)

QueryIq == Stanza(FALSE, "set", Jid("alice", "phone"), Jid("bob", "desk"), <<"a">>)

AcceptedChoices == {ACCEPTED_TRUST_LEVELS, {"Authenticated"}}

\* the own data of a manager whose keys play no part
NoOwnData == <<>>

\* no call of buildSession or setUpDeviceId under way
NoOperation == [pc |-> "none"]

\* no PEP service in reach, no publication under way, no device list received
NoPepService == [features |-> {}, nodes |-> <<>>]

\* bundlePublications, not read by the code, counts the acknowledged publications of the
\* bundle item
NoPublication ==
    [pc |-> "idle", phase |-> "none", attempt |-> 0, withOptions |-> FALSE,
     isNodeCreated |-> FALSE, pepServiceFeatures |-> {}, nodes |-> {}, requests |-> {},
     results |-> <<>>, round |-> 0, bundlePublications |-> 0]

InitPubSubIdle ==
    /\ ownData = [m \in Managers |-> NoOwnData]
    /\ operations = [m \in Managers |-> NoOperation]
    /\ subscriptions = [m \in Managers |-> <<>>]
    /\ maximumDevicesPerJid = [m \in Managers |-> DEVICES_PER_JID_MAX]
    /\ pepService = NoPepService
    /\ publishing = [m \in Managers |-> NoPublication]
    /\ updates = [m \in Managers |-> <<>>]

Init ==
    /\ WITH_OMEMO_V03 \in BOOLEAN
    /\ InitPubSubIdle
    /\ \E known \in InitKnown :
          /\ devices = [m \in Managers |-> IF m = "A" THEN registryOf(known) ELSE NoRegistry]
          /\ omemoStorage = devices
          /\ trustLevels = [m \in Managers |-> IF m = "A" THEN trustOf(known) ELSE NoTrust]
    /\ securityPolicy \in [Managers -> TrustSecurityPolicy]
    /\ securityPolicy["B"] = "Toakafa"
    /\ \E cap \in {SmallDeviceCap, DEVICES_PER_STANZA_MAX} :
          maximumDevicesPerStanza = [m \in Managers |-> cap]
    /\ calls = [m \in Managers |-> <<>>]
    /\ now = 14
    /\ wire = <<>>
    /\ decryptions = [m \in Managers |-> <<>>]
    /\ cipherRuns = {}

EncryptMessage ==
    /\ calls["A"] = <<>>
    /\ \E recipientJids \in {<<"bob">>, <<"alice">>, <<>>}, accepted \in AcceptedChoices :
        EncryptMessageForRecipients("A", ChatMessage, recipientJids, accepted, 1, 1)

EncryptIq ==
    /\ calls["A"] = <<>>
    /\ \E accepted \in AcceptedChoices :
        EncryptStanza("A", QueryIq, <<"bob">>, accepted, 1, 1)

\* indices of the calls a manager has under way and of the tasks of a call
CallIds == {1}

TaskIds == 1..4

Continue ==
    \/ \E c \in CallIds, i \in TaskIds, deviceBundle \in Bundles :
           DeviceBundleFetched("A", c, i, deviceBundle)
    \/ \E c \in CallIds, i \in TaskIds, libOk \in BOOLEAN :
           TrustLevelOfBundleKeyRetrieved("A", c, i, libOk)
    \/ \E c \in CallIds, i \in TaskIds, libOk \in BOOLEAN :
           KeyStoredDependingOnSecurityPolicy("A", c, i, libOk)
    \/ \E c \in CallIds, i \in TaskIds, libOk \in BOOLEAN :
           TrustLevelRetrieved("A", c, i, libOk)
    \/ \E c \in CallIds, i \in TaskIds, deviceBundle \in Bundles, libOk \in BOOLEAN :
           DeviceBundleForSessionFetched("A", c, i, deviceBundle, libOk)

Sweep == RemoveDevicesRemovedFromServer("A")

Next == EncryptMessage \/ EncryptIq \/ Continue \/ Sweep

Spec == Init /\ [][Next]_vars

-----------------------------------------------------------------------------
(* Properties of the encryption fan-out *)

taskAddr(task) == <<task.jid, task.deviceId>>

envelopeAddr(entry) == <<entry.jid, entry.envelope.recipientDeviceId>>

\* every future the call issued has resolved
AllResolved(call) == \A i \in DOMAIN call.tasks : call.tasks[i].pc \in {"done", "skipped"}

\* the entries of an element's envelopes addressed to a
envelopesFor(element, a) ==
    SelectSeq(element.envelopes, LAMBDA entry : envelopeAddr(entry) = a)

\* C1: an envelope is created only for a device whose key has an accepted trust level (the
\* level the trust manager answered or the security policy stored), and an element is
\* reported only if some recipient device has such a key
TrustGating ==
    \A c \in DOMAIN calls["A"] :
        LET call == calls["A"][c]
            accepted(a) ==
                \E i \in DOMAIN call.tasks :
                    /\ taskAddr(call.tasks[i]) = a
                    /\ call.tasks[i].pc = "done"
                    /\ call.tasks[i].trustLevel \in call.acceptedTrustLevels
                    /\ \/ TrustKey(a) \notin DOMAIN trustLevels["A"]
                       \/ trustLevels["A"][TrustKey(a)] = call.tasks[i].trustLevel
        IN /\ \A k \in DOMAIN call.omemoElement.envelopes :
                  accepted(envelopeAddr(call.omemoElement.envelopes[k]))
           /\ \A r \in DOMAIN call.results :
                  call.results[r].hasElement =>
                      /\ call.results[r].element.envelopes # <<>>
                      /\ \A k \in DOMAIN call.results[r].element.envelopes :
                             accepted(envelopeAddr(call.results[r].element.envelopes[k]))

\* C1 witness: an element was reported that holds an envelope for a trusted device and none
\* for a recipient device whose key has a level that is not accepted
TrustGatingWitness ==
    \E c \in DOMAIN calls["A"] :
        LET call == calls["A"][c]
        IN /\ \E r \in DOMAIN call.results :
                 /\ call.results[r].hasElement
                 /\ \E i \in DOMAIN call.tasks :
                        /\ call.tasks[i].pc = "done"
                        /\ call.tasks[i].trustLevel \notin call.acceptedTrustLevels
                        /\ envelopesFor(call.results[r].element, taskAddr(call.tasks[i])) = <<>>
                 /\ \E j \in DOMAIN call.tasks :
                        /\ call.tasks[j].device.keyId = <<>>
                        /\ envelopesFor(call.results[r].element, taskAddr(call.tasks[j])) # <<>>

\* C4: once every future of an encryptStanza call has resolved, the call has reported
FanOutCompletes ==
    \A c \in DOMAIN calls["A"] :
        AllResolved(calls["A"][c]) => calls["A"][c].results # <<>>

\* C5: a call whose futures have all resolved has reported exactly one result, which is an
\* element exactly if an envelope was created for at least one device
AggregateOutcome ==
    \A c \in DOMAIN calls["A"] :
        LET call == calls["A"][c]
        IN AllResolved(call) =>
               /\ Len(call.results) = 1
               /\ call.results[1].hasElement <=> call.omemoElement.envelopes # <<>>

\* C6: the reported element holds exactly one envelope for each device an envelope was
\* created for, and the payload encrypted before the fan-out
OneEnvelopePerDevice ==
    \A c \in DOMAIN calls["A"] :
        LET call == calls["A"][c]
        IN \A r \in DOMAIN call.results :
               call.results[r].hasElement =>
                   /\ call.results[r].element.payload =
                          call.payloadEncryptionResult.encryptedPayload
                   /\ \A a \in AllAddr :
                          Len(envelopesFor(call.results[r].element, a)) <= 1
                   /\ AllResolved(call) =>
                          \A a \in AllAddr :
                              envelopesFor(call.omemoElement, a) # <<>> =>
                                  Len(envelopesFor(call.results[r].element, a)) = 1

-----------------------------------------------------------------------------
(* The OMEMO element on the wire *)

\* QMultiMap::uniqueKeys() yields the recipient JIDs in sorted order
BareJids == <<"alice", "bob", "mallory", "room">>

RECURSIVE envelopesOfJids(_, _)
envelopesOfJids(envelopes, jids) ==
    IF jids = <<>> THEN <<>>
    ELSE SelectSeq(envelopes, LAMBDA entry : entry.jid = Head(jids))
         \o envelopesOfJids(envelopes, Tail(jids))

\* QXmppOmemoElement::toXml: OMEMO 0.3 writes the <key/> elements without their JID and the
\* <iv/>, OMEMO 2 groups the <key/> elements in one <keys jid=''/> per recipient JID
toXml(element) ==
    [sid |-> element.senderDeviceId,
     iv |-> IF WITH_OMEMO_V03 THEN element.iv ELSE 0,
     keys |-> IF WITH_OMEMO_V03
              THEN [i \in DOMAIN element.envelopes |->
                       [jid |-> "", envelope |-> [element.envelopes[i].envelope EXCEPT !.iv = 0]]]
              ELSE envelopesOfJids(element.envelopes, BareJids),
     payload |-> element.payload]

\* QXmppOmemoElement::parse: OMEMO 0.3 adds every envelope under the JID "" with the iv of
\* the header
parse(xml) ==
    [senderDeviceId |-> xml.sid,
     iv |-> xml.iv,
     payload |-> xml.payload,
     envelopes |-> IF WITH_OMEMO_V03
                   THEN [i \in DOMAIN xml.keys |->
                            [jid |-> "", envelope |-> [xml.keys[i].envelope EXCEPT !.iv = xml.iv]]]
                   ELSE xml.keys]

\* the full JID the server stamps on the stanzas of manager m
ownFullJid(m) == Jid(ownBareJid(m), IF m = "A" THEN "phone" ELSE "desk")

\* a stanza as sent: the encrypted content is gone, the OMEMO element is attached
Sent(stanza, element) ==
    [stanza |-> [stanza EXCEPT !.content = <<>>], xml |-> toXml(element),
     original |-> stanza.content]

-----------------------------------------------------------------------------
(* decryptMessage / decryptIq: the call record and its continuations *)

\* std::optional<DecryptionResult> without a value
Nothing == [decrypted |-> FALSE, content |-> <<>>]

Decrypted(content) == [decrypted |-> TRUE, content |-> content]

\* QCA::SecureArray(EMPTY_MESSAGE_DECRYPTION_DATA_SIZE)
EmptyMessageDecryptionData ==
    [key |-> 0, tag |-> NoTag, size |-> EMPTY_MESSAGE_DECRYPTION_DATA_SIZE]

\* return values of session_cipher_decrypt_*signal_message handled by the manager, and a
\* failure to deserialize the envelope data
LibraryOutcomes ==
    {"SG_SUCCESS", "SG_ERR_INVALID_MESSAGE", "SG_ERR_DUPLICATE_MESSAGE", "deserialize"}

\* return values that only the switch of the key exchange branch handles
KeyExchangeOutcomes ==
    {"SG_ERR_INVALID_KEY_ID", "SG_ERR_INVALID_KEY", "SG_ERR_UNTRUSTED_IDENTITY"}

\* every answer of the ratchet library to extractPayloadDecryptionData: the failures of
\* session_cipher_create and ec_public_key_serialize, and the return values of
\* session_cipher_decrypt_*signal_message; SG_ERR_UNKNOWN (-1000) stands for the negative
\* values that no case names, such as the -1 of remove_pre_key
ExtractionOutcomes ==
    LibraryOutcomes \cup KeyExchangeOutcomes
        \cup {"session_cipher_create", "ec_public_key_serialize", "SG_ERR_LEGACY_MESSAGE",
              "SG_ERR_NO_SESSION", "SG_ERR_UNKNOWN"}

\* what reading the null buffer in the lambda reportResult does
NullBufferReads == {"crashed", "read"}

\* the ratchet decrypts only data that the sending device encrypted for this device
isGenuine(m, senderJid, senderDeviceId, omemoEnvelope) ==
    /\ omemoEnvelope.data.recipient = <<ownBareJid(m), ownDevice(m).id>>
    /\ omemoEnvelope.data.sender = <<senderJid, senderDeviceId>>

\* a decryptMessage (isMessageStanza) or decryptIq call as it starts; pc names the future
\* the call waits for, trustPc the future of the key exchange's trust level
NewDecryption(stanza, element, found, omemoEnvelope, original) ==
    [stanza |-> stanza,
     original |-> original,       \* what the sender encrypted (not read by the code)
     isMessageStanza |-> stanza.isMessage,
     senderJid |-> jidToBareJid(stanza.from),
     senderDeviceId |-> element.senderDeviceId,
     found |-> found,
     omemoEnvelope |-> omemoEnvelope,
     omemoPayload |-> element.payload,
     pc |-> "started",
     trustPc |-> "none",
     hadSession |-> FALSE,        \* a session was stored as the call began (not read by the code)
     outcome |-> "none",          \* what the ratchet library answered (not read by the code)
     sessionBuilt |-> "none",     \* the result of buildSessionWithDeviceBundle, once reported
     key |-> <<>>,
     deviceBundle |-> NoBundle,
     payloadDecryptionData |-> EmptyData,
     serializedSceEnvelope |-> EmptyPlain,
     \* the QFutureInterface of extractPayloadDecryptionData
     extraction |-> [results |-> <<>>, isFinished |-> FALSE],
     results |-> <<>>]

\* reportFinishedResult(interface, payloadDecryptionData) of extractPayloadDecryptionData; a
\* finished interface takes no further result
reportPayloadDecryptionData(st, payloadDecryptionData) ==
    IF st.dec.extraction.isFinished THEN st
    ELSE [st EXCEPT !.dec.payloadDecryptionData = payloadDecryptionData,
                    !.dec.pc = "extracted",
                    !.dec.extraction = [results |-> Append(@.results, payloadDecryptionData),
                                        isFinished |-> TRUE]]

\* the interface of decryptMessage / decryptIq finishes
reportDecryption(st, result) ==
    [st EXCEPT !.dec.results = Append(@, result), !.dec.pc = "returned"]

\* ManagerPrivate::sendEmptyMessage: the library call succeeds whenever a session is stored
sendEmptyMessage(st, m, recipientJid, recipientDeviceId, isKeyExchange) ==
    LET a == <<recipientJid, recipientDeviceId>>
        r == createOmemoEnvelopeData(st, m, a, EmptyMessageDecryptionData, TRUE)
    IN IF r.data = NoEnvelopeData THEN st
       ELSE LET omemoEnvelope == [recipientDeviceId |-> recipientDeviceId,
                                  isUsedForKeyExchange |-> isKeyExchange,
                                  data |-> r.data, iv |-> 0]
                omemoElement == [addEnvelope(DefaultElement, recipientJid, omemoEnvelope)
                                    EXCEPT !.senderDeviceId = ownDevice(m).id]
                message == Stanza(TRUE, "chat", ownFullJid(m), Jid(recipientJid, ""), <<>>)
            IN [r.st EXCEPT !.wire = Append(@, Sent(message, omemoElement))]

\* ManagerPrivate::extractPayloadDecryptionData up to its return; outcome is what the
\* ratchet library answers
extractPayloadDecryptionData(st, m, isMessageStanza, outcome, nullBufferRead) ==
    LET dec == st.dec
        a == <<dec.senderJid, dec.senderDeviceId>>
        omemoEnvelope == dec.omemoEnvelope
    IN IF outcome = "session_cipher_create"
       THEN \* return {}: a default-constructed future, finished without a result
            [st EXCEPT !.dec.pc = "canceled", !.dec.extraction.isFinished = TRUE]
       ELSE IF omemoEnvelope.isUsedForKeyExchange
       THEN IF outcome \in {"deserialize", "ec_public_key_serialize"}
            THEN reportPayloadDecryptionData(st, EmptyData)
            ELSE LET key == IdentityKeyOf(omemoEnvelope.data.sender)
                     stored == deviceValue(st.devices, a)
                     device == [stored EXCEPT !.keyId = createKeyId(key)]
                     st1 == [st EXCEPT
                                !.devices = devicePut(@, a, device),
                                !.omemoStorage = IF stored.keyId # createKeyId(key)
                                                 THEN devicePut(@, a, device) ELSE @]
                 IN IF outcome = "SG_SUCCESS"
                    THEN LET st2 == reportPayloadDecryptionData(
                                        storeSession(st1, a, SessionRecord),
                                        omemoEnvelope.data.plain)
                             st3 == IF isMessageStanza
                                    THEN sendEmptyMessage(st2, m, dec.senderJid,
                                                          dec.senderDeviceId, FALSE)
                                    ELSE st2
                         IN [st3 EXCEPT !.dec.trustPc = "trustLevel", !.dec.key = key]
                    ELSE IF outcome \in {"SG_ERR_INVALID_MESSAGE", "SG_ERR_DUPLICATE_MESSAGE",
                                         "SG_ERR_LEGACY_MESSAGE"} \cup KeyExchangeOutcomes
                    THEN reportPayloadDecryptionData(st1, EmptyData)
                    ELSE \* the switch has no default
                         [st1 EXCEPT !.dec.pc = "pending"]
       ELSE IF deviceValue(st.devices, a).session = <<>>
       THEN [st EXCEPT !.devices = devicePut(@, a, deviceValue(@, a)),
                       !.dec.pc = "requestDeviceBundle"]
       ELSE IF outcome = "SG_SUCCESS"
       THEN reportPayloadDecryptionData(storeSession(st, a, loadSession(st.devices, a)),
                                        omemoEnvelope.data.plain)
       ELSE IF outcome \in {"deserialize", "SG_ERR_INVALID_MESSAGE",
                            "SG_ERR_DUPLICATE_MESSAGE", "SG_ERR_LEGACY_MESSAGE"}
       THEN reportPayloadDecryptionData(st, EmptyData)
       ELSE IF outcome = "SG_ERR_NO_SESSION"
       THEN \* no break: the case falls through to reportResult(payloadDecryptionDataBuffer)
            \* with the buffer still null
            LET st1 == reportPayloadDecryptionData(st, EmptyData)
            IN IF nullBufferRead = "crashed" THEN [st1 EXCEPT !.dec.pc = "crashed"]
               ELSE reportPayloadDecryptionData(st1, EmptyMessageDecryptionData)
       ELSE \* the switch has no default
            [st EXCEPT !.dec.pc = "pending"]

\* the continuation of extractSceEnvelope
extractSceEnvelope(st) ==
    LET dec == st.dec
    IN [st EXCEPT !.dec.serializedSceEnvelope =
           IF dec.payloadDecryptionData.size = 0 THEN EmptyPlain
           ELSE decryptPayload(dec.payloadDecryptionData, dec.omemoEnvelope.iv,
                               dec.omemoPayload).plain]

\* the stanza is counted as received also at the threshold, where the empty message is
\* sent and the counter goes on
countReceivedStanzaAlways(st, m, a) ==
    LET st1 == [st EXCEPT !.devices = devicePut(@, a, [deviceValue(@, a) EXCEPT
                                                          !.unrespondedSentStanzasCount = 0])]
        st2 == IF st1.devices[a].unrespondedReceivedStanzasCount =
                      UNRESPONDED_STANZAS_UNTIL_HEARTBEAT_MESSAGE_IS_SENT
               THEN sendEmptyMessage(st1, m, a[1], a[2], FALSE)
               ELSE st1
    IN [st2 EXCEPT !.devices[a].unrespondedReceivedStanzasCount = @ + 1]

\* the stanza is counted as received, unrespondedSentStanzasCount is left as it is
countReceivedStanzaOnly(st, m, a) ==
    LET st1 == [st EXCEPT !.devices = devicePut(@, a, deviceValue(@, a))]
    IN IF st1.devices[a].unrespondedReceivedStanzasCount =
              UNRESPONDED_STANZAS_UNTIL_HEARTBEAT_MESSAGE_IS_SENT
       THEN LET st2 == sendEmptyMessage(st1, m, a[1], a[2], FALSE)
            IN [st2 EXCEPT !.devices[a].unrespondedReceivedStanzasCount = 0]
       ELSE [st1 EXCEPT !.devices[a].unrespondedReceivedStanzasCount = @ + 1]

\* decryptStanza, lines resetting unrespondedSentStanzasCount and counting the stanza as
\* received, with the heartbeat message at the threshold
countReceivedStanza(st, m, a) ==
    LET st1 == [st EXCEPT !.devices = devicePut(@, a, [deviceValue(@, a) EXCEPT
                                                          !.unrespondedSentStanzasCount = 0])]
    IN IF st1.devices[a].unrespondedReceivedStanzasCount =
              UNRESPONDED_STANZAS_UNTIL_HEARTBEAT_MESSAGE_IS_SENT
       THEN LET st2 == sendEmptyMessage(st1, m, a[1], a[2], FALSE)
            IN [st2 EXCEPT !.devices[a].unrespondedReceivedStanzasCount = 0]
       ELSE [st1 EXCEPT !.devices[a].unrespondedReceivedStanzasCount = @ + 1]

\* OMEMO 0.3: QDomDocument::setContent of "<envelope><content><body>" + bytes +
\* "</body></content></envelope>", then contentElement(): markup in the bytes of a message
\* body makes the document malformed, the child of an IQ ends up inside <body/>
contentElementV03(bytes, isMessageStanza) ==
    IF isMessageStanza
    THEN IF \E i \in DOMAIN bytes : bytes[i] = "<" THEN <<>> ELSE bytes
    ELSE <<"<body>">> \o bytes \o <<"</body>">>

\* a check of the SCE affix element <to/> that leaves IQs out
isSceAffixElementValidForMessages(stanza, isMessageStanza, sce) ==
    isMessageStanza => ~(stanza.type = "groupchat" /\ sce.to # jidToBareJid(stanza.to))

\* decryptStanza, the checks of the SCE affix element <to/>
isSceAffixElementValid(stanza, isMessageStanza, sce) ==
    IF isMessageStanza
    THEN ~(stanza.type = "groupchat" /\ sce.to # jidToBareJid(stanza.to))
    ELSE sce.to = jidToBareJid(stanza.to)

\* the continuation of ManagerPrivate::decryptStanza, followed by the continuation of
\* decryptMessage / decryptIq that hands the decrypted stanza out
decryptStanza(st, m) ==
    LET dec == st.dec
        sce == dec.serializedSceEnvelope
        a == <<dec.senderJid, dec.senderDeviceId>>
    IN IF sce = EmptyPlain THEN reportDecryption(st, Nothing)
       ELSE IF WITH_OMEMO_V03
       THEN reportDecryption(countReceivedStanza(st, m, a),
                             Decrypted(contentElementV03(sce.content, dec.isMessageStanza)))
       ELSE IF sce.from # dec.senderJid THEN reportDecryption(st, Nothing)
       ELSE IF ~isSceAffixElementValid(dec.stanza, dec.isMessageStanza, sce)
       THEN reportDecryption(st, Nothing)
       ELSE reportDecryption(countReceivedStanza(st, m, a), Decrypted(sce.content))

\* reportFinishedResult(interface, bool) of buildSessionWithDeviceBundle
reportSessionBuilt(st, isBuilt) ==
    [st EXCEPT !.dec.sessionBuilt = IF isBuilt THEN "true" ELSE "false",
               \* the continuation of extractPayloadDecryptionData reports the empty value
               !.dec.extraction = IF @.isFinished THEN @
                                  ELSE [results |-> Append(@.results, EmptyData),
                                        isFinished |-> TRUE]]

\* the same with a session built whatever the trust level of the key is
buildSessionWithDeviceBundleWhateverTrustLevel(st, m, trustLevel, sent) ==
    LET a == <<st.dec.senderJid, st.dec.senderDeviceId>>
        b == buildSession(st, a, st.dec.deviceBundle)
    IN IF ~b.ok THEN reportDecryption(reportSessionBuilt(st, FALSE), Nothing)
       ELSE reportDecryption(
                reportSessionBuilt(sendEmptyMessage(b.st, m, a[1], a[2], TRUE), sent),
                Nothing)

\* buildSessionWithDeviceBundle, the lambda buildSessionDependingOnTrustLevel, and the
\* continuations up to the result of the decryption; sent tells whether the empty key
\* exchange message went out (QXmppClient::sendUnencrypted)
buildSessionWithDeviceBundle(st, m, trustLevel, sent) ==
    LET dec == st.dec
        a == <<dec.senderJid, dec.senderDeviceId>>
    IN IF ~testFlag(ACCEPTED_TRUST_LEVELS, trustLevel)
       THEN reportDecryption(reportSessionBuilt(st, FALSE), Nothing)
       ELSE LET b == buildSession(st, a, dec.deviceBundle)
            IN IF ~b.ok THEN reportDecryption(reportSessionBuilt(st, FALSE), Nothing)
               ELSE IF sent
               THEN reportDecryption(
                        reportSessionBuilt(sendEmptyMessage(b.st, m, a[1], a[2], TRUE), TRUE),
                        Nothing)
               ELSE reportDecryption(
                        reportSessionBuilt(
                            createOmemoEnvelopeData(b.st, m, a, EmptyMessageDecryptionData,
                                                    TRUE).st,
                            FALSE),
                        Nothing)

-----------------------------------------------------------------------------
(* Actions of the decryption pipeline *)

\* a call has returned and none of its continuations is pending
settled(dec) == dec.pc = "returned" /\ dec.trustPc = "none"

decStOf(m, d) ==
    [devices |-> devices[m], omemoStorage |-> omemoStorage[m], wire |-> wire,
     dec |-> decryptions[m][d]]

commitDecryption(m, d, st) ==
    /\ devices' = [devices EXCEPT ![m] = st.devices]
    /\ omemoStorage' = [omemoStorage EXCEPT ![m] = st.omemoStorage]
    /\ wire' = st.wire
    /\ decryptions' = [decryptions EXCEPT ![m][d] = st.dec]

\* a new call; the calls that have settled are dropped from the record
beginDecryption(m, st) ==
    /\ devices' = [devices EXCEPT ![m] = st.devices]
    /\ omemoStorage' = [omemoStorage EXCEPT ![m] = st.omemoStorage]
    /\ wire' = st.wire
    /\ decryptions' = [decryptions EXCEPT ![m] =
                          Append(SelectSeq(@, LAMBDA dec : ~settled(dec)), st.dec)]

\* ManagerPrivate::subscribeToDeviceList up to its return: subscribeToNode is requested; pc
\* names the answer the call waits for, isSubscribed that the JID is in
\* jidsOfManuallySubscribedDevices, itemResult the result of requestDeviceList
subscribeToDeviceList(subs, jid) ==
    Append(subs, [jid |-> jid, pc |-> "subscribeToNode", isSubscribed |-> FALSE,
                  itemResult |-> "none",
                  deviceList |-> <<>>,    \* the device list received (not read by the code)
                  results |-> <<>>])

subscribeToEachDeviceList(subs, devs, jid, deviceId) == subscribeToDeviceList(subs, jid)

\* ManagerPrivate::subscribeToNewDeviceLists
subscribeToNewDeviceLists(subs, devs, jid, deviceId) ==
    IF <<jid, deviceId>> \notin DOMAIN devs THEN subscribeToDeviceList(subs, jid) ELSE subs

\* ManagerPrivate::decryptMessage on the stanza at the head of the wire
DecryptMessage(m, outcome) ==
    /\ wire # <<>>
    /\ LET stanza == Head(wire).stanza
           omemoElement == parse(Head(wire).xml)
           search == searchEnvelope(omemoElement, ownBareJid(m), ownDevice(m).id)
           dec == [NewDecryption(stanza, omemoElement, search.found, search.envelope,
                                 Head(wire).original)
                      EXCEPT !.hadSession =
                                 loadSession(devices[m], <<jidToBareJid(stanza.from),
                                                           omemoElement.senderDeviceId>>) # <<>>,
                             !.outcome = outcome]
           st == [devices |-> devices[m], omemoStorage |-> omemoStorage[m],
                  wire |-> Tail(wire), dec |-> dec]
       IN /\ stanza.isMessage
          /\ jidToBareJid(stanza.to) = ownBareJid(m)
          /\ outcome = "SG_SUCCESS" =>
                 isGenuine(m, dec.senderJid, dec.senderDeviceId, search.envelope)
          /\ outcome = "ec_public_key_serialize" =>
                 search.found /\ search.envelope.isUsedForKeyExchange
          /\ subscriptions' = [subscriptions EXCEPT ![m] =
                 IF search.found
                 THEN subscribeToNewDeviceLists(@, devices[m], dec.senderJid, dec.senderDeviceId)
                 ELSE @]
          /\ IF ~search.found THEN beginDecryption(m, [st EXCEPT !.dec.pc = "returned"])
             ELSE \E nullBufferRead \in NullBufferReads :
                     beginDecryption(m, extractPayloadDecryptionData(st, m, TRUE, outcome,
                                                                     nullBufferRead))
    /\ UNCHANGED <<maximumDevicesPerJid, pepService, publishing, updates, ownData, operations,
                   WITH_OMEMO_V03, trustLevels, securityPolicy, maximumDevicesPerStanza,
                   calls, now, cipherRuns>>

\* ManagerPrivate::decryptIq on the stanza at the head of the wire
DecryptIq(m, outcome) ==
    /\ wire # <<>>
    /\ LET stanza == Head(wire).stanza
           omemoElement == parse(Head(wire).xml)
           search == searchEnvelope(omemoElement, ownBareJid(m), ownDevice(m).id)
           dec == [NewDecryption(stanza, omemoElement, search.found, search.envelope,
                                 Head(wire).original)
                      EXCEPT !.hadSession =
                                 loadSession(devices[m], <<jidToBareJid(stanza.from),
                                                           omemoElement.senderDeviceId>>) # <<>>,
                             !.outcome = outcome]
           st == [devices |-> devices[m], omemoStorage |-> omemoStorage[m],
                  wire |-> Tail(wire), dec |-> dec]
       IN /\ ~stanza.isMessage
          /\ jidToBareJid(stanza.to) = ownBareJid(m)
          /\ outcome = "SG_SUCCESS" =>
                 isGenuine(m, dec.senderJid, dec.senderDeviceId, search.envelope)
          /\ outcome = "ec_public_key_serialize" =>
                 search.found /\ search.envelope.isUsedForKeyExchange
          /\ subscriptions' = [subscriptions EXCEPT ![m] =
                 IF search.found
                 THEN subscribeToNewDeviceLists(@, devices[m], dec.senderJid, dec.senderDeviceId)
                 ELSE @]
          /\ IF ~search.found THEN beginDecryption(m, reportDecryption(st, Nothing))
             ELSE \E nullBufferRead \in NullBufferReads :
                     beginDecryption(m, extractPayloadDecryptionData(st, m, FALSE, outcome,
                                                                     nullBufferRead))
    /\ UNCHANGED <<maximumDevicesPerJid, pepService, publishing, updates, ownData, operations,
                   WITH_OMEMO_V03, trustLevels, securityPolicy, maximumDevicesPerStanza,
                   calls, now, cipherRuns>>

\* continuation of extractPayloadDecryptionData: for an empty OMEMO message the lambda of
\* decryptMessage, otherwise the lambdas of extractSceEnvelope, decryptStanza and the caller
PayloadDecryptionDataExtracted(m, d) ==
    /\ d \in DOMAIN decryptions[m]
    /\ decryptions[m][d].pc = "extracted"
    /\ IF decryptions[m][d].isMessageStanza /\ decryptions[m][d].omemoPayload = EmptyBytes
       THEN commitDecryption(m, d, reportDecryption(decStOf(m, d), Nothing))
       ELSE commitDecryption(m, d, decryptStanza(extractSceEnvelope(decStOf(m, d)), m))
    /\ UNCHANGED <<pubSubVars, WITH_OMEMO_V03, trustLevels, securityPolicy, maximumDevicesPerStanza,
                   calls, now, cipherRuns>>

\* extractPayloadDecryptionData after a key exchange: continuation of q->trustLevel
SenderTrustLevelRetrieved(m, d) ==
    /\ d \in DOMAIN decryptions[m]
    /\ decryptions[m][d].trustPc = "trustLevel"
    /\ LET dec == decryptions[m][d]
           trustLevel == trustLevelOf(trustLevels[m], dec.senderJid, createKeyId(dec.key))
       IN decryptions' = [decryptions EXCEPT ![m][d].trustPc =
                             IF trustLevel = "Undecided"
                             THEN "storeKeyDependingOnSecurityPolicy" ELSE "none"]
    /\ UNCHANGED <<pubSubVars, WITH_OMEMO_V03, devices, omemoStorage, trustLevels, securityPolicy,
                   maximumDevicesPerStanza, calls, now, wire, cipherRuns>>

\* extractPayloadDecryptionData after a key exchange: continuation of
\* storeKeyDependingOnSecurityPolicy
SenderKeyStored(m, d) ==
    /\ d \in DOMAIN decryptions[m]
    /\ decryptions[m][d].trustPc = "storeKeyDependingOnSecurityPolicy"
    /\ LET dec == decryptions[m][d]
       IN trustLevels' = [trustLevels EXCEPT ![m] =
              storeKey(@, dec.senderJid, dec.key,
                       levelBySecurityPolicy(securityPolicy[m], @, dec.senderJid))]
    /\ decryptions' = [decryptions EXCEPT ![m][d].trustPc = "none"]
    /\ UNCHANGED <<pubSubVars, WITH_OMEMO_V03, devices, omemoStorage, securityPolicy,
                   maximumDevicesPerStanza, calls, now, wire, cipherRuns>>

\* buildSessionWithDeviceBundle: continuation of requestDeviceBundle
SessionBundleFetched(m, d, deviceBundle) ==
    /\ d \in DOMAIN decryptions[m]
    /\ decryptions[m][d].pc = "requestDeviceBundle"
    /\ LET dec == decryptions[m][d]
           a == <<dec.senderJid, dec.senderDeviceId>>
           st == decStOf(m, d)
       IN /\ deviceBundle \in {NoBundle, DeviceBundle(a, TRUE), DeviceBundle(a, FALSE)}
          /\ IF deviceBundle # NoBundle
             THEN commitDecryption(m, d,
                      [st EXCEPT !.devices =
                                     devicePut(@, a,
                                         [deviceValue(@, a) EXCEPT
                                             !.keyId = createKeyId(deviceBundle.publicIdentityKey)]),
                                 !.dec.deviceBundle = deviceBundle,
                                 !.dec.pc = "trustLevel"])
             ELSE commitDecryption(m, d, reportDecryption(reportSessionBuilt(st, FALSE),
                                                          Nothing))
    /\ UNCHANGED <<pubSubVars, WITH_OMEMO_V03, trustLevels, securityPolicy, maximumDevicesPerStanza,
                   calls, now, cipherRuns>>

\* buildSessionWithDeviceBundle: continuation of q->trustLevel
SessionTrustLevelRetrieved(m, d) ==
    /\ d \in DOMAIN decryptions[m]
    /\ decryptions[m][d].pc = "trustLevel"
    /\ LET dec == decryptions[m][d]
           trustLevel == trustLevelOf(trustLevels[m], dec.senderJid,
                                      createKeyId(dec.deviceBundle.publicIdentityKey))
       IN IF trustLevel = "Undecided"
          THEN commitDecryption(m, d, [decStOf(m, d) EXCEPT
                                          !.dec.pc = "storeKeyDependingOnSecurityPolicy"])
          ELSE \E sent \in BOOLEAN :
                   commitDecryption(m, d, buildSessionWithDeviceBundle(decStOf(m, d), m,
                                                                       trustLevel, sent))
    /\ UNCHANGED <<pubSubVars, WITH_OMEMO_V03, trustLevels, securityPolicy, maximumDevicesPerStanza,
                   calls, now, cipherRuns>>

\* buildSessionWithDeviceBundle: continuation of storeKeyDependingOnSecurityPolicy
SessionKeyStored(m, d) ==
    /\ d \in DOMAIN decryptions[m]
    /\ decryptions[m][d].pc = "storeKeyDependingOnSecurityPolicy"
    /\ LET dec == decryptions[m][d]
           trustLevel == levelBySecurityPolicy(securityPolicy[m], trustLevels[m], dec.senderJid)
       IN /\ trustLevels' = [trustLevels EXCEPT ![m] =
                                storeKey(@, dec.senderJid, dec.deviceBundle.publicIdentityKey,
                                         trustLevel)]
          /\ \E sent \in BOOLEAN :
                 commitDecryption(m, d, buildSessionWithDeviceBundle(decStOf(m, d), m,
                                                                     trustLevel, sent))
    /\ UNCHANGED <<pubSubVars, WITH_OMEMO_V03, securityPolicy, maximumDevicesPerStanza, calls, now,
                   cipherRuns>>

\* QXmppClient::sendSensitive: the stanza goes out with the element encryptStanza reported;
\* without an element nothing is sent
Send(m) ==
    /\ calls[m] # <<>>
    /\ calls[m][1].results # <<>>
    /\ wire' = IF calls[m][1].results[1].hasElement
               THEN Append(wire, Sent(calls[m][1].stanza, calls[m][1].results[1].element))
               ELSE wire
    /\ calls' = [calls EXCEPT ![m] = Tail(@)]
    /\ UNCHANGED <<pubSubVars, WITH_OMEMO_V03, devices, omemoStorage, trustLevels, securityPolicy,
                   maximumDevicesPerStanza, now, decryptions, cipherRuns>>

-----------------------------------------------------------------------------
(* Specification of the payload cipher: a payload is encrypted, possibly altered on its
   way, and decrypted *)

PayloadContents == {<<"a">>, <<"<">>, <<"a", "a">>}

PayloadPlains ==
    {[sce |-> TRUE, to |-> "bob", from |-> "alice", content |-> c] : c \in PayloadContents}

\* what encryptPayload can produce
Produced == {encryptPayload(payload, key, iv) : payload \in PayloadPlains, key \in PayloadKeys,
                                                iv \in Ivs}

Idle ==
    /\ wire = <<>>
    /\ \A m \in Managers :
          /\ calls[m] = <<>>
          /\ \A d \in DOMAIN decryptions[m] : settled(decryptions[m][d])

InitIdle ==
    /\ WITH_OMEMO_V03 \in BOOLEAN
    /\ InitPubSubIdle
    /\ maximumDevicesPerStanza = [m \in Managers |-> DEVICES_PER_STANZA_MAX]
    /\ calls = [m \in Managers |-> <<>>]
    /\ now = 14
    /\ wire = <<>>
    /\ decryptions = [m \in Managers |-> <<>>]
    /\ cipherRuns = {}

InitPayload ==
    /\ InitIdle
    /\ devices = [m \in Managers |-> NoRegistry]
    /\ omemoStorage = devices
    /\ trustLevels = [m \in Managers |-> NoTrust]
    /\ securityPolicy = [m \in Managers |-> "Toakafa"]

NotRun == [checked |-> FALSE, verified |-> FALSE, ran |-> FALSE, plain |-> EmptyPlain]

PayloadEncrypted ==
    /\ cipherRuns = {}
    /\ \E produced \in Produced :
          cipherRuns' = {[stage |-> "encrypted", produced |-> produced,
                          payloadDecryptionData |-> produced.decryptionData,
                          iv |-> produced.iv, payload |-> produced.encryptedPayload,
                          result |-> NotRun]}
    /\ UNCHANGED <<pubSubVars, WITH_OMEMO_V03, devices, omemoStorage, trustLevels, securityPolicy,
                   maximumDevicesPerStanza, calls, now, wire, decryptions>>

\* the ciphertext, the authentication tag or the key is replaced by that of another
\* encryption
PayloadAltered ==
    /\ \E run \in cipherRuns, other \in Produced :
          /\ run.stage = "encrypted"
          /\ run.payload = run.produced.encryptedPayload
          /\ run.payloadDecryptionData = run.produced.decryptionData
          /\ other # run.produced
          /\ \/ cipherRuns' = {[run EXCEPT !.payload = other.encryptedPayload]}
             \/ cipherRuns' = {[run EXCEPT !.payloadDecryptionData.tag =
                                               other.decryptionData.tag]}
             \/ cipherRuns' = {[run EXCEPT !.payloadDecryptionData.key =
                                               other.decryptionData.key]}
    /\ UNCHANGED <<pubSubVars, WITH_OMEMO_V03, devices, omemoStorage, trustLevels, securityPolicy,
                   maximumDevicesPerStanza, calls, now, wire, decryptions>>

PayloadDecrypted ==
    /\ \E run \in cipherRuns :
          /\ run.stage = "encrypted"
          /\ cipherRuns' = {[run EXCEPT
                                !.stage = "decrypted",
                                !.result = decryptPayload(run.payloadDecryptionData, run.iv,
                                                          run.payload)]}
    /\ UNCHANGED <<pubSubVars, WITH_OMEMO_V03, devices, omemoStorage, trustLevels, securityPolicy,
                   maximumDevicesPerStanza, calls, now, wire, decryptions>>

NextPayload == PayloadEncrypted \/ PayloadAltered \/ PayloadDecrypted

SpecPayload == InitPayload /\ [][NextPayload]_vars

\* the authentication tag over the ciphertext of a run, computed with the key of its
\* decryption data
tagOverPayload(run) ==
    IF WITH_OMEMO_V03
    THEN gcmTag(run.payloadDecryptionData.key, run.iv, run.payload)
    ELSE messageAuthenticationCode(hkdfOutput(run.payloadDecryptionData.key).authenticationKey,
                                   run.payload)

\* plaintext comes out only under a matching tag, and altered input yields the failure value
AuthenticatedPlaintext(run) ==
    /\ run.result.plain # EmptyPlain => tagOverPayload(run) = run.payloadDecryptionData.tag
    /\ \/ run.payload # run.produced.encryptedPayload
       \/ run.payloadDecryptionData.tag # run.produced.decryptionData.tag
       => run.result.plain = EmptyPlain

\* C2 (as the code has it): decryptPayload returns plaintext only if the tag over the
\* ciphertext equals the tag of the decryption data, and the failure value for an altered
\* ciphertext or tag; the HKDF+CBC+HMAC variant compares the tags before it runs the cipher,
\* the AES-GCM variant runs the cipher, which checks the tag itself
AuthenticationBeforeDecryption ==
    \A run \in cipherRuns :
        run.stage = "decrypted" =>
            /\ AuthenticatedPlaintext(run)
            /\ ~WITH_OMEMO_V03 => (run.result.ran => run.result.checked /\ run.result.verified)
            /\ WITH_OMEMO_V03 => (run.result.ran /\ ~run.result.checked)

\* C2 witness: an altered ciphertext was rejected by the HMAC comparison, the cipher not run
AuthenticationBeforeDecryptionWitness ==
    \E run \in cipherRuns :
        /\ ~WITH_OMEMO_V03
        /\ run.stage = "decrypted"
        /\ run.payload # run.produced.encryptedPayload
        /\ run.result.checked /\ ~run.result.ran
        /\ run.result.plain = EmptyPlain

\* C2 as claimed: in both variants the cipher runs only on ciphertext whose tag decryptPayload
\* verified before
CipherRunsOnlyOnVerifiedCiphertext ==
    \A run \in cipherRuns :
        run.stage = "decrypted" =>
            /\ AuthenticatedPlaintext(run)
            /\ run.result.ran => run.result.checked /\ run.result.verified

-----------------------------------------------------------------------------
(* Specification of the decryption pipeline on manager B: the device alice/9, which does
   not run this code, sends one crafted stanza *)

Peer == <<"alice", 9>>

\* what manager B may hold for the peer
InitPeerKnown ==
    {NoRegistry,
     [a \in {Peer} |-> KnownDevice(Peer, TRUE, TRUE, 0, 0)],
     [a \in {Peer} |-> KnownDevice(Peer, TRUE, FALSE, 0, 0)]}

InitDecrypt ==
    /\ InitIdle
    /\ \E known \in InitPeerKnown :
          devices = [m \in Managers |-> IF m = "B" THEN known ELSE NoRegistry]
    /\ omemoStorage = devices
    /\ \E trust \in {NoTrust, [k \in {TrustKey(Peer)} |-> "ManuallyDistrusted"]} :
          trustLevels = [m \in Managers |-> IF m = "B" THEN trust ELSE NoTrust]
    /\ securityPolicy = [m \in Managers |-> "Toakafa"]

StanzaKinds == {<<TRUE, "chat">>, <<TRUE, "normal">>, <<TRUE, "groupchat">>, <<FALSE, "set">>}

\* the peer encrypts content under an SCE envelope with affixes of its choice, for a device
\* of its choice, and sends the stanza to bob
PeerSends ==
    /\ wire = <<>>
    /\ decryptions["B"] = <<>>
    /\ \E kind \in StanzaKinds, from \in {"alice", "mallory"}, to \in {"bob", "room"},
          target \in {<<"bob", 2>>, <<"bob", 3>>, <<"alice", 2>>},
          withEnvelope \in BOOLEAN, isKeyExchange \in BOOLEAN, isEmpty \in BOOLEAN :
          LET stanza == Stanza(kind[1], kind[2], Jid("alice", "phone"), Jid("bob", "desk"), <<"a">>)
              sce == IF WITH_OMEMO_V03
                     THEN [sce |-> FALSE, to |-> "", from |-> "", content |-> stanza.content]
                     ELSE [sce |-> TRUE, to |-> to, from |-> from, content |-> stanza.content]
              produced == encryptPayload(sce, 1, 1)
              omemoEnvelope ==
                  [recipientDeviceId |-> target[2],
                   isUsedForKeyExchange |-> isKeyExchange,
                   data |-> [sender |-> Peer, recipient |-> target,
                             plain |-> IF isEmpty THEN EmptyMessageDecryptionData
                                       ELSE produced.decryptionData],
                   iv |-> 0]
              element == [senderDeviceId |-> Peer[2],
                          payload |-> IF isEmpty THEN EmptyBytes ELSE produced.encryptedPayload,
                          iv |-> IF isEmpty THEN 0 ELSE produced.iv,
                          envelopes |-> IF withEnvelope
                                        THEN <<[jid |-> target[1], envelope |-> omemoEnvelope]>>
                                        ELSE <<>>]
          IN /\ WITH_OMEMO_V03 => from = "alice" /\ to = "bob"
             /\ isEmpty => kind[1]
             /\ ~withEnvelope => target = <<"bob", 2>> /\ ~isKeyExchange
             /\ wire' = <<Sent(stanza, element)>>
    /\ UNCHANGED <<pubSubVars, WITH_OMEMO_V03, devices, omemoStorage, trustLevels, securityPolicy,
                   maximumDevicesPerStanza, calls, now, decryptions, cipherRuns>>

MessageReceived == \E outcome \in LibraryOutcomes : DecryptMessage("B", outcome)

IqReceived == \E outcome \in LibraryOutcomes : DecryptIq("B", outcome)

DecryptionContinued ==
    \/ \E d \in CallIds : PayloadDecryptionDataExtracted("B", d)
    \/ \E d \in CallIds : SenderTrustLevelRetrieved("B", d)
    \/ \E d \in CallIds : SenderKeyStored("B", d)
    \/ \E d \in CallIds, deviceBundle \in Bundles : SessionBundleFetched("B", d, deviceBundle)
    \/ \E d \in CallIds : SessionTrustLevelRetrieved("B", d)
    \/ \E d \in CallIds : SessionKeyStored("B", d)

NextDecrypt == PeerSends \/ MessageReceived \/ IqReceived \/ DecryptionContinued

SpecDecrypt == InitDecrypt /\ [][NextDecrypt]_vars

-----------------------------------------------------------------------------
(* Properties of the decryption pipeline *)

\* the call handed out decrypted content
hasDecrypted(dec) == dec.results # <<>> /\ dec.results[1].decrypted

\* C9: a decryptMessage or decryptIq call on a stanza without an envelope for this device
\* has finished with the result 'nothing decrypted' when it returns
NoEnvelopeCompletes ==
    \A m \in Managers :
        \A d \in DOMAIN decryptions[m] :
            LET dec == decryptions[m][d]
            IN ~dec.found /\ dec.pc = "returned" => dec.results = <<Nothing>>

\* C10 (as the code has it): with OMEMO 2, content is handed out only if the SCE affix
\* <from/> is the sender's bare JID and, for group chat messages and for IQs, the SCE affix
\* <to/> is the bare JID the stanza is addressed to
SceAffixValidation ==
    \A m \in Managers :
        \A d \in DOMAIN decryptions[m] :
            LET dec == decryptions[m][d]
                sce == dec.serializedSceEnvelope
            IN hasDecrypted(dec) /\ ~WITH_OMEMO_V03 =>
                   /\ sce.from = dec.senderJid
                   /\ ~dec.isMessageStanza \/ dec.stanza.type = "groupchat" =>
                          sce.to = jidToBareJid(dec.stanza.to)

\* C10 witness: a stanza whose payload decrypted to an SCE envelope with a foreign <from/>
\* was refused
SceAffixValidationWitness ==
    \E d \in DOMAIN decryptions["B"] :
        LET dec == decryptions["B"][d]
        IN /\ ~WITH_OMEMO_V03
           /\ dec.pc = "returned"
           /\ dec.serializedSceEnvelope # EmptyPlain
           /\ dec.serializedSceEnvelope.from # dec.senderJid
           /\ dec.results = <<Nothing>>

\* C10 as claimed: content is handed out only if <from/> is the sender's bare JID and, for
\* every stanza that is not a group chat message, <to/> is the addressed bare JID
SceAffixesOfNonGroupStanzas ==
    \A m \in Managers :
        \A d \in DOMAIN decryptions[m] :
            LET dec == decryptions[m][d]
                sce == dec.serializedSceEnvelope
            IN hasDecrypted(dec) =>
                   /\ sce.from = dec.senderJid
                   /\ ~(dec.isMessageStanza /\ dec.stanza.type = "groupchat") =>
                          sce.to = jidToBareJid(dec.stanza.to)

\* the device a call decrypts for
senderOf(dec) == <<dec.senderJid, dec.senderDeviceId>>

\* the SCE affix elements name the sender and the addressee of the stanza
hasMatchingAffixes(dec) ==
    /\ dec.serializedSceEnvelope.from = dec.senderJid
    /\ dec.serializedSceEnvelope.to = jidToBareJid(dec.stanza.to)

\* C11: a call on a stanza with a payload, from a device without a stored session, whose
\* envelope has the key exchange flag and is accepted by the ratchet, stores a session for
\* the sender in memory and in storage, fetches no bundle and runs no session build, and
\* returns the decrypted content
SessionSelfHeal ==
    \A m \in Managers :
        \A d \in DOMAIN decryptions[m] :
            LET dec == decryptions[m][d]
            IN /\ dec.found /\ dec.omemoPayload # EmptyBytes /\ ~dec.hadSession
               /\ dec.omemoEnvelope.isUsedForKeyExchange /\ dec.outcome = "SG_SUCCESS"
               => /\ loadSession(devices[m], senderOf(dec)) # <<>>
                  /\ loadSession(omemoStorage[m], senderOf(dec)) # <<>>
                  /\ dec.deviceBundle = NoBundle
                  /\ dec.sessionBuilt = "none"
                  /\ dec.pc \in {"extracted", "returned"}
                  /\ dec.pc = "returned" /\ (WITH_OMEMO_V03 \/ hasMatchingAffixes(dec)) =>
                         /\ hasDecrypted(dec)
                         /\ ~WITH_OMEMO_V03 => dec.results[1].content = dec.original

\* C11 witness: a key exchange stanza from a device without a session was decrypted and the
\* session is stored
SessionSelfHealWitness ==
    \E d \in DOMAIN decryptions["B"] :
        LET dec == decryptions["B"][d]
        IN /\ dec.found /\ dec.omemoPayload # EmptyBytes /\ ~dec.hadSession
           /\ dec.omemoEnvelope.isUsedForKeyExchange /\ dec.outcome = "SG_SUCCESS"
           /\ dec.pc = "returned"
           /\ hasDecrypted(dec)
           /\ loadSession(omemoStorage["B"], senderOf(dec)) # <<>>

\* C12: a call on a stanza whose envelope has no key exchange flag, from a device without a
\* stored session, gets empty decryption data and hands out no content; a session stored
\* for the device afterwards comes from the rebuild: the bundle was fetched, the trust level
\* of its key is accepted, and buildSessionWithDeviceBundle built it
NoSessionNoDecryption ==
    \A m \in Managers :
        \A d \in DOMAIN decryptions[m] :
            LET dec == decryptions[m][d]
            IN dec.found /\ ~dec.omemoEnvelope.isUsedForKeyExchange /\ ~dec.hadSession
               => /\ dec.payloadDecryptionData = EmptyData
                  /\ dec.serializedSceEnvelope = EmptyPlain
                  /\ ~hasDecrypted(dec)
                  /\ dec.pc = "returned" => dec.results = <<Nothing>>
                  /\ loadSession(devices[m], senderOf(dec)) # <<>> =>
                         /\ dec.deviceBundle.wellFormed
                         /\ dec.sessionBuilt # "none"
                         /\ trustLevelOf(trustLevels[m], dec.senderJid,
                                         createKeyId(dec.deviceBundle.publicIdentityKey))
                                \in ACCEPTED_TRUST_LEVELS

\* C12 witness: such a call returned nothing and the rebuild stored a session
NoSessionNoDecryptionWitness ==
    \E d \in DOMAIN decryptions["B"] :
        LET dec == decryptions["B"][d]
        IN /\ dec.found /\ ~dec.omemoEnvelope.isUsedForKeyExchange /\ ~dec.hadSession
           /\ dec.omemoPayload # EmptyBytes
           /\ dec.results = <<Nothing>>
           /\ dec.sessionBuilt = "true"
           /\ loadSession(devices["B"], senderOf(dec)) # <<>>

\* C13: after buildSessionWithDeviceBundle reported failure for a device that had no
\* session, the device has no session in memory and none in storage
FailedBuildLeavesNoSession ==
    \A m \in Managers :
        \A d \in DOMAIN decryptions[m] :
            LET dec == decryptions[m][d]
            IN dec.sessionBuilt = "false" /\ ~dec.hadSession
               => /\ loadSession(devices[m], senderOf(dec)) = <<>>
                  /\ loadSession(omemoStorage[m], senderOf(dec)) = <<>>

\* C14: a step that stores a session for a device that had none leaves the trust level of
\* the device's key decided
SessionAfterTrustResolution ==
    [][\A m \in Managers :
           \A a \in DOMAIN devices'[m] :
               loadSession(devices[m], a) = <<>> /\ devices'[m][a].session # <<>> =>
                   trustLevelOf(trustLevels'[m], a[1], devices'[m][a].keyId) # "Undecided"]_vars

-----------------------------------------------------------------------------
(* Specification of two devices in conversation: alice/9 (manager A) and bob/2 (manager B)
   send each other chat messages, one stanza after the other; bundles are retrievable, the
   ratchet library and the network work *)

otherManager(m) == IF m = "A" THEN "B" ELSE "A"

LiveContents == {<<"a">>, <<"<">>, <<"U+20AC">>}

\* manager A knows bob/2 from the device list, with or without its key
InitLiveKnown ==
    {[a \in {<<"bob", 2>>} |-> Known(a, TRUE, FALSE, 0, 0, "Authenticated")],
     [a \in {<<"bob", 2>>} |-> Known(a, FALSE, FALSE, 0, 0, "Undecided")]}

InitLive ==
    /\ InitIdle
    /\ \E known \in InitLiveKnown :
          /\ devices = [m \in Managers |-> IF m = "A" THEN registryOf(known) ELSE NoRegistry]
          /\ trustLevels = [m \in Managers |->
                               IF m = "A" /\ known[<<"bob", 2>>].level # "Undecided"
                               THEN trustOf(known) ELSE NoTrust]
    /\ omemoStorage = devices
    /\ securityPolicy = [m \in Managers |-> "Toakafa"]

\* manager m sends a chat message to the other account
LiveEncrypt(m) ==
    /\ Idle
    /\ \E content \in LiveContents :
          EncryptMessageForRecipients(
              m, Stanza(TRUE, "chat", ownFullJid(m), Jid(ownBareJid(otherManager(m)), ""), content),
              <<ownBareJid(otherManager(m))>>, ACCEPTED_TRUST_LEVELS, 1, 1)

LiveContinue(m) ==
    \/ \E i \in TaskIds : DeviceBundleFetched(m, 1, i, DeviceBundle(<<"bob", 2>>, TRUE))
    \/ \E i \in TaskIds : TrustLevelOfBundleKeyRetrieved(m, 1, i, TRUE)
    \/ \E i \in TaskIds : KeyStoredDependingOnSecurityPolicy(m, 1, i, TRUE)
    \/ \E i \in TaskIds : TrustLevelRetrieved(m, 1, i, TRUE)
    \/ \E i \in TaskIds :
           DeviceBundleForSessionFetched(m, 1, i, DeviceBundle(<<"bob", 2>>, TRUE), TRUE)

LiveReceive(m) == DecryptMessage(m, "SG_SUCCESS")

LiveDecrypted(m) ==
    \/ \E d \in CallIds : PayloadDecryptionDataExtracted(m, d)
    \/ \E d \in CallIds : SenderTrustLevelRetrieved(m, d)
    \/ \E d \in CallIds : SenderKeyStored(m, d)

NextLive ==
    \E m \in Managers :
        LiveEncrypt(m) \/ LiveContinue(m) \/ Send(m) \/ LiveReceive(m) \/ LiveDecrypted(m)

SpecLive == InitLive /\ [][NextLive]_vars

\* the same run with manager B never sending content of its own
NextHeartbeat ==
    \/ LiveEncrypt("A")
    \/ LiveContinue("A")
    \/ Send("A")
    \/ \E m \in Managers : LiveReceive(m) \/ LiveDecrypted(m)

SpecHeartbeat == InitLive /\ [][NextHeartbeat]_vars

-----------------------------------------------------------------------------
(* Properties of the conversation *)

\* the device of the other manager
peerOf(m) == <<ownBareJid(otherManager(m)), ownDevice(otherManager(m)).id>>

unrespondedSentStanzasCount(m, a) == deviceValue(devices[m], a).unrespondedSentStanzasCount

\* envelopes for a in the element of the call manager m has under way
envelopesCreated(m, a) ==
    IF calls[m] = <<>> THEN 0 ELSE Len(envelopesFor(calls[m][1].omemoElement, a))

\* C3: a stanza encrypted for a device and decrypted by that device yields the content that
\* was encrypted
RoundTrip ==
    \A m \in Managers :
        \A d \in DOMAIN decryptions[m] :
            LET dec == decryptions[m][d]
            IN dec.found /\ dec.omemoPayload # EmptyBytes /\ dec.pc = "returned" =>
                   dec.results = <<Decrypted(dec.original)>>

\* one step of manager m as C7 has it: the counter of the peer's device is 0 after a stanza
\* from it was decrypted and otherwise grows by the envelopes created for it; a call that
\* starts skips the device exactly if the counter is at the threshold; the element of a
\* call that is handed to the client holds an envelope for the device exactly if the call
\* did not skip it
LivenessThresholdStep(m) ==
    LET a == peerOf(m)
        decryptedNow ==
            \E d \in DOMAIN decryptions[m] \cap DOMAIN decryptions'[m] :
                /\ decryptions[m][d].pc = "extracted"
                /\ decryptions'[m][d].results # <<>>
                /\ decryptions'[m][d].results[1].decrypted
                /\ decryptions'[m][d].senderJid = a[1]
                /\ decryptions'[m][d].senderDeviceId = a[2]
        createdNow ==
            IF calls[m] # <<>> /\ calls'[m] # <<>>
            THEN envelopesCreated(m, a)' - envelopesCreated(m, a) ELSE 0
    IN /\ unrespondedSentStanzasCount(m, a)' =
              IF decryptedNow THEN 0 ELSE unrespondedSentStanzasCount(m, a) + createdNow
       /\ calls[m] = <<>> /\ calls'[m] # <<>> =>
              \A i \in DOMAIN calls'[m][1].tasks :
                  taskAddr(calls'[m][1].tasks[i]) = a =>
                      (calls'[m][1].tasks[i].pc = "skipped"
                          <=> unrespondedSentStanzasCount(m, a) =
                                  UNRESPONDED_STANZAS_UNTIL_ENCRYPTION_IS_STOPPED)
       /\ calls[m] # <<>> /\ calls'[m] = <<>> =>
              \A i \in DOMAIN calls[m][1].tasks :
                  taskAddr(calls[m][1].tasks[i]) = a =>
                      (calls[m][1].tasks[i].pc = "skipped"
                          <=> envelopesFor(calls[m][1].results[1].element, a) = <<>>)

\* C7: a device is skipped exactly after 106 consecutive envelopes without a decrypted
\* stanza from it in between, and a decrypted stanza from it sets its
\* unrespondedSentStanzasCount to 0, so that the next call creates an envelope again
LivenessThreshold == [][\A m \in Managers : LivenessThresholdStep(m)]_vars

\* C7 witness: a call of manager A skipped bob/2, whose counter had grown from 0 to 106
LivenessThresholdWitness ==
    /\ calls["A"] # <<>>
    /\ \E i \in DOMAIN calls["A"][1].tasks :
          /\ taskAddr(calls["A"][1].tasks[i]) = <<"bob", 2>>
          /\ calls["A"][1].tasks[i].pc = "skipped"
    /\ unrespondedSentStanzasCount("A", <<"bob", 2>>) =
           UNRESPONDED_STANZAS_UNTIL_ENCRYPTION_IS_STOPPED

\* C8: while manager B decrypts every stanza of manager A and sends no content of its own,
\* its heartbeat messages keep A's unrespondedSentStanzasCount for bob/2 below the threshold
HeartbeatRefreshesLiveness ==
    unrespondedSentStanzasCount("A", <<"bob", 2>>) <
        UNRESPONDED_STANZAS_UNTIL_ENCRYPTION_IS_STOPPED

-----------------------------------------------------------------------------
(* Publication of the device bundle and of the device list on the PEP service *)

PepFeatures ==
    {"publish", "publish-options", "auto-create", "create-and-configure", "create-nodes",
     "config-node", "config-node-max"}

\* name of the node of the device bundles: ns_omemo_bundles + ":" + device id, or
\* ns_omemo_2_bundles
deviceBundlesNode(m) ==
    IF WITH_OMEMO_V03 THEN <<"bundles", ownDevice(m).id>> ELSE <<"bundles", 0>>

\* name of the node of the device list: ns_omemo_devices or ns_omemo_2_devices
deviceListNode == <<"devices", 0>>

\* a bundle item that takes a new item id with each publication
deviceBundleItemOfEachPublication(m, call) ==
    [id |-> ToString(call.bundlePublications),
     deviceBundle |-> DeviceBundle(<<ownBareJid(m), ownDevice(m).id>>, TRUE)]

\* ManagerPrivate::deviceBundleItem
deviceBundleItem(m, call) ==
    [id |-> IF WITH_OMEMO_V03 THEN "current" ELSE ToString(ownDevice(m).id),
     deviceBundle |-> DeviceBundle(<<ownBareJid(m), ownDevice(m).id>>, TRUE)]

\* ManagerPrivate::otherOwnDevices: devices.value(ownBareJid())
otherOwnDevices(devs, m) == {a \in DOMAIN devs : a[1] = ownBareJid(m)}

\* the device elements of a set of devices, in the order of their ids
RECURSIVE deviceElements(_, _)
deviceElements(devs, S) ==
    IF S = {} THEN <<>>
    ELSE LET a == CHOOSE x \in S : \A y \in S : x[2] <= y[2]
         IN <<[id |-> a[2], label |-> devs[a].label]>> \o deviceElements(devs, S \ {a})

\* ManagerPrivate::deviceListItem
deviceListItem(m, devs, addOwnDevice) ==
    [id |-> "current",
     deviceList |-> (IF addOwnDevice THEN <<ownDevice(m)>> ELSE <<>>)
                        \o deviceElements(devs, otherOwnDevices(devs, m))]

\* the PEP service: a node keeps one item per item id, and publishing an item with the id
\* of a stored item replaces that item
nodeItems(nodes, node) == IF node \in DOMAIN nodes THEN nodes[node] ELSE <<>>

publishedItem(nodes, node, item) ==
    [n \in DOMAIN nodes \cup {node} |->
        IF n = node
        THEN [i \in DOMAIN nodeItems(nodes, node) \cup {item.id} |->
                 IF i = item.id THEN item ELSE nodeItems(nodes, node)[i]]
        ELSE nodes[n]]

createdNode(nodes, node) == [n \in DOMAIN nodes \cup {node} |-> nodeItems(nodes, n)]

\* a request handed to the PubSub manager: createNode, configureNode, publishItem,
\* requestPepFeatures, fetchPepNodes, requestPepItem
issue(call, phase, pc, attempt) ==
    [call EXCEPT !.pc = pc, !.phase = phase, !.attempt = attempt,
                 !.requests = @ \cup {<<phase, pc>>}]

\* reportFinishedResult(interface, isPublished) in publishOmemoData
reportPublished(call, isPublished) ==
    [reportFinishedResult(call, isPublished) EXCEPT !.pc = "none"]

\* the node configuration tried first: the maximum the service supports if it announces
\* config-node-max, PUBSUB_NODE_MAX_ITEMS_1 otherwise (then _2, then _3)
firstItemLimit(call) == IF "config-node-max" \in call.pepServiceFeatures THEN 0 ELSE 1

isLastItemLimit(attempt) == attempt \in {0, 3}

\* ManagerPrivate::publishDeviceElementWithoutOptions
publishDeviceElementWithoutOptions(call, isConfigurationSupported) ==
    LET features == call.pepServiceFeatures
    IN IF deviceListNode \in call.nodes /\ isConfigurationSupported
       THEN issue(call, "deviceList", "configureNode", 0)
       ELSE IF "create-and-configure" \in features
       THEN issue(call, "deviceList", "createAndConfigure", 0)
       ELSE IF "create-nodes" \in features /\ isConfigurationSupported
       THEN issue([call EXCEPT !.withOptions = FALSE], "deviceList", "createNode", 0)
       ELSE reportPublished(call, FALSE)

\* ManagerPrivate::publishDeviceElement: the continuation of updateOwnDevicesLocally
ownDevicesUpdated(call, isUpdated) ==
    LET features == call.pepServiceFeatures
    IN IF ~isUpdated THEN reportPublished(call, FALSE)
       ELSE IF "publish-options" \in features
       THEN IF "auto-create" \in features \/ deviceListNode \in call.nodes
            THEN issue([call EXCEPT !.withOptions = TRUE, !.isNodeCreated = FALSE],
                       "deviceList", "publishItemWithOptions", 0)
            ELSE IF "create-nodes" \in features
            THEN issue([call EXCEPT !.withOptions = TRUE], "deviceList", "createNode", 0)
            ELSE reportPublished(call, FALSE)
       ELSE publishDeviceElementWithoutOptions(call, TRUE)

\* ManagerPrivate::updateOwnDevicesLocally, up to its request
updateOwnDevicesLocally(call, m, devs) ==
    IF deviceListNode \in call.nodes /\ otherOwnDevices(devs, m) = {}
    THEN issue(call, "deviceList", "requestPepItem", 0)
    ELSE ownDevicesUpdated(call, TRUE)

publishDeviceElement(call, m, devs) == updateOwnDevicesLocally(call, m, devs)

\* the continuations of the requests of publishDeviceElement
deviceListRequestAnswered(call, isDone) ==
    CASE call.pc = "publishItemWithOptions" ->
             IF isDone THEN reportPublished(call, TRUE)
             ELSE IF ~call.isNodeCreated THEN publishDeviceElementWithoutOptions(call, TRUE)
             ELSE IF "config-node" \in call.pepServiceFeatures
             THEN issue(call, "deviceList", "configureNode", 0)
             ELSE reportPublished(call, FALSE)
      [] call.pc = "createNode" ->
             IF ~isDone THEN reportPublished(call, FALSE)
             ELSE IF call.withOptions
             THEN issue([call EXCEPT !.isNodeCreated = TRUE],
                        "deviceList", "publishItemWithOptions", 0)
             ELSE issue(call, "deviceList", "configureNode", 0)
      [] call.pc \in {"createAndConfigure", "configureNode"} ->
             IF isDone THEN issue(call, "deviceList", "publishItem", 0)
             ELSE reportPublished(call, FALSE)
      [] call.pc = "publishItem" -> reportPublished(call, isDone)

deviceBundlePublishedOrNot(call, m, devs, isPublished) == publishDeviceElement(call, m, devs)

\* handleResult of publishOmemoData: the continuation of publishDeviceBundle
deviceBundlePublished(call, m, devs, isPublished) ==
    IF isPublished THEN publishDeviceElement(call, m, devs) ELSE reportPublished(call, FALSE)

\* ManagerPrivate::publishDeviceBundleWithoutOptions
publishDeviceBundleWithoutOptions(call, m) ==
    LET features == call.pepServiceFeatures
    IN IF deviceBundlesNode(m) \in call.nodes /\ "config-node" \in features
       THEN issue(call, "bundle", "configureNode", firstItemLimit(call))
       ELSE IF "create-and-configure" \in features
       THEN issue(call, "bundle", "createAndConfigure", firstItemLimit(call))
       ELSE IF "create-nodes" \in features /\ "config-node" \in features
       THEN issue([call EXCEPT !.withOptions = FALSE], "bundle", "createNode", 0)
       ELSE reportPublished(call, FALSE)

\* ManagerPrivate::publishDeviceBundle
publishDeviceBundle(call, m) ==
    LET features == call.pepServiceFeatures
    IN IF "publish-options" \in features
       THEN IF "auto-create" \in features \/ deviceBundlesNode(m) \in call.nodes
            THEN issue([call EXCEPT !.withOptions = TRUE, !.isNodeCreated = FALSE],
                       "bundle", "publishItemWithOptions", 0)
            ELSE IF "create-nodes" \in features
            THEN issue([call EXCEPT !.withOptions = TRUE], "bundle", "createNode", 0)
            ELSE reportPublished(call, FALSE)
       ELSE publishDeviceBundleWithoutOptions([call EXCEPT !.withOptions = FALSE], m)

\* the continuations of the requests of publishDeviceBundle
bundleRequestAnswered(call, m, devs, isDone) ==
    CASE call.pc = "publishItemWithOptions" ->
             IF isDone THEN deviceBundlePublished(call, m, devs, TRUE)
             ELSE IF call.attempt < 3
             THEN issue(call, "bundle", "publishItemWithOptions", call.attempt + 1)
             ELSE IF ~call.isNodeCreated THEN publishDeviceBundleWithoutOptions(call, m)
             ELSE IF "config-node" \in call.pepServiceFeatures
             THEN issue(call, "bundle", "configureNode", firstItemLimit(call))
             ELSE reportPublished(call, FALSE)
      [] call.pc = "createNode" ->
             IF ~isDone THEN reportPublished(call, FALSE)
             ELSE IF call.withOptions
             THEN issue([call EXCEPT !.isNodeCreated = TRUE],
                        "bundle", "publishItemWithOptions", 0)
             ELSE issue(call, "bundle", "configureNode", firstItemLimit(call))
      [] call.pc \in {"createAndConfigure", "configureNode"} ->
             IF isDone THEN issue(call, "bundle", "publishItem", 0)
             ELSE IF isLastItemLimit(call.attempt) THEN reportPublished(call, FALSE)
             ELSE issue(call, "bundle", call.pc, call.attempt + 1)
      [] call.pc = "publishItem" -> deviceBundlePublished(call, m, devs, isDone)

\* QList::mid(0, length)
firstElements(list, length) == IF Len(list) > length THEN SubSeq(list, 1, length) ELSE list

\* the loop of updateOwnDevicesLocally over the received device list: devices[jid][deviceId]
\* gets the label of each element that is not this device's
RECURSIVE labelOwnDevices(_, _, _)
labelOwnDevices(devs, m, deviceList) ==
    IF deviceList = <<>> THEN devs
    ELSE LET deviceElement == Head(deviceList)
             a == <<ownBareJid(m), deviceElement.id>>
         IN labelOwnDevices(
                IF deviceElement.id # ownDevice(m).id
                THEN devicePut(devs, a, [deviceValue(devs, a) EXCEPT !.label = deviceElement.label])
                ELSE devs,
                m, Tail(deviceList))

\* number of times the continuation of buildSessionForNewDevice runs
processedDevicesCount(m, deviceList) ==
    Cardinality({i \in DOMAIN deviceList : deviceList[i].id # ownDevice(m).id})

\* ManagerPrivate::publishOmemoData
PublishOmemoData(m) ==
    /\ publishing[m].pc \in {"idle", "none"}
    /\ publishing[m].round < MaxPublications
    /\ publishing' = [publishing EXCEPT ![m] =
           issue([NoPublication EXCEPT !.round = publishing[m].round + 1,
                                       !.bundlePublications = publishing[m].bundlePublications],
                 "features", "requestPepFeatures", 0)]
    /\ UNCHANGED <<WITH_OMEMO_V03, devices, omemoStorage, trustLevels, securityPolicy,
                   maximumDevicesPerStanza, calls, now, wire, decryptions, cipherRuns,
                   maximumDevicesPerJid, pepService, updates, ownData,
                   operations, subscriptions>>

\* publishOmemoData: the continuation of requestPepFeatures
PepFeaturesReceived(m) ==
    /\ publishing[m].pc = "requestPepFeatures"
    /\ \E isAnswered \in BOOLEAN :
          LET call == [publishing[m] EXCEPT !.pepServiceFeatures = pepService.features]
          IN publishing' = [publishing EXCEPT ![m] =
                 IF ~isAnswered THEN reportPublished(publishing[m], FALSE)
                 ELSE IF "publish" \in call.pepServiceFeatures
                 THEN issue(call, "features", "fetchPepNodes", 0)
                 ELSE reportPublished(call, FALSE)]
    /\ UNCHANGED <<WITH_OMEMO_V03, devices, omemoStorage, trustLevels, securityPolicy,
                   maximumDevicesPerStanza, calls, now, wire, decryptions, cipherRuns,
                   maximumDevicesPerJid, pepService, updates, ownData,
                   operations, subscriptions>>

\* publishOmemoData: the continuation of fetchPepNodes
PepNodesFetched(m) ==
    /\ publishing[m].pc = "fetchPepNodes"
    /\ \E isAnswered \in BOOLEAN :
          publishing' = [publishing EXCEPT ![m] =
              IF ~isAnswered THEN reportPublished(@, FALSE)
              ELSE publishDeviceBundle([@ EXCEPT !.nodes = DOMAIN pepService.nodes], m)]
    /\ UNCHANGED <<WITH_OMEMO_V03, devices, omemoStorage, trustLevels, securityPolicy,
                   maximumDevicesPerStanza, calls, now, wire, decryptions, cipherRuns,
                   maximumDevicesPerJid, pepService, updates, ownData,
                   operations, subscriptions>>

\* what the PEP service does with a request it accepts
served(nodes, node, pc, item) ==
    CASE pc \in {"publishItem", "publishItemWithOptions"} -> publishedItem(nodes, node, item)
      [] pc \in {"createNode", "createAndConfigure"} -> createdNode(nodes, node)
      [] OTHER -> nodes

\* whether the PEP service can accept a request: it creates no node that exists, and
\* publishes to a missing node only if it creates nodes automatically
servable(node, pc) ==
    CASE pc \in {"publishItem", "publishItemWithOptions"} ->
             node \in DOMAIN pepService.nodes \/ "auto-create" \in pepService.features
      [] pc \in {"createNode", "createAndConfigure"} -> node \notin DOMAIN pepService.nodes
      [] OTHER -> TRUE

PubSubRequests == {"publishItemWithOptions", "publishItem", "createNode", "createAndConfigure",
                   "configureNode"}

\* a request of publishDeviceBundle is answered
DeviceBundleRequestAnswered(m) ==
    /\ publishing[m].phase = "bundle"
    /\ publishing[m].pc \in PubSubRequests
    /\ \E isDone \in {TRUE, FALSE} :
          LET call == publishing[m]
              isPublished == isDone /\ call.pc \in {"publishItem", "publishItemWithOptions"}
          IN /\ isDone => servable(deviceBundlesNode(m), call.pc)
             /\ pepService' = IF isDone
                              THEN [pepService EXCEPT !.nodes =
                                       served(@, deviceBundlesNode(m), call.pc,
                                              deviceBundleItem(m, call))]
                              ELSE pepService
             /\ publishing' = [publishing EXCEPT ![m] =
                    bundleRequestAnswered(
                        [call EXCEPT !.bundlePublications =
                                         IF isPublished THEN @ + 1 ELSE @],
                        m, devices[m], isDone)]
    /\ UNCHANGED <<WITH_OMEMO_V03, devices, omemoStorage, trustLevels, securityPolicy,
                   maximumDevicesPerStanza, calls, now, wire, decryptions, cipherRuns,
                   maximumDevicesPerJid, updates, ownData,
                   operations, subscriptions>>

\* updateOwnDevicesLocally: the continuation of requestPepItem
OwnDeviceListReceived(m) ==
    /\ publishing[m].pc = "requestPepItem"
    /\ \/ /\ publishing' = [publishing EXCEPT ![m] = ownDevicesUpdated(@, FALSE)]
          /\ UNCHANGED <<devices, omemoStorage>>
       \/ /\ "current" \in DOMAIN nodeItems(pepService.nodes, deviceListNode)
          /\ LET deviceList == firstElements(pepService.nodes[deviceListNode]["current"].deviceList,
                                             maximumDevicesPerJid[m])
                 devicesCount == Len(deviceList)
             IN /\ devices' = [devices EXCEPT ![m] = labelOwnDevices(@, m, deviceList)]
                /\ omemoStorage' = [omemoStorage EXCEPT ![m] = labelOwnDevices(@, m, deviceList)]
                /\ publishing' = [publishing EXCEPT ![m] =
                       IF devicesCount = 0 \/ processedDevicesCount(m, deviceList) = devicesCount
                       THEN ownDevicesUpdated(@, TRUE)
                       ELSE [@ EXCEPT !.pc = "none"]]
    /\ UNCHANGED <<WITH_OMEMO_V03, trustLevels, securityPolicy,
                   maximumDevicesPerStanza, calls, now, wire, decryptions, cipherRuns,
                   maximumDevicesPerJid, pepService, updates, ownData,
                   operations, subscriptions>>

\* a request of publishDeviceElement is answered
DeviceListRequestAnswered(m) ==
    /\ publishing[m].phase = "deviceList"
    /\ publishing[m].pc \in PubSubRequests
    /\ \E isDone \in {TRUE, FALSE} :
          LET call == publishing[m]
          IN /\ isDone => servable(deviceListNode, call.pc)
             /\ pepService' = IF isDone
                              THEN [pepService EXCEPT !.nodes =
                                       served(@, deviceListNode, call.pc,
                                              deviceListItem(m, devices[m], TRUE))]
                              ELSE pepService
             /\ publishing' = [publishing EXCEPT ![m] = deviceListRequestAnswered(call, isDone)]
    /\ UNCHANGED <<WITH_OMEMO_V03, devices, omemoStorage, trustLevels, securityPolicy,
                   maximumDevicesPerStanza, calls, now, wire, decryptions, cipherRuns,
                   maximumDevicesPerJid, updates, ownData,
                   operations, subscriptions>>

-----------------------------------------------------------------------------
(* Specification of manager A publishing its OMEMO data *)

\* another device of alice, as known to manager A or as listed on the server
OtherOwnDevice == [DefaultDevice EXCEPT !.label = "tablet"]

DeviceElement(id, label) == [id |-> id, label |-> label]

\* the device lists the PEP service may hold: empty, only other devices, or with this device
ServedDeviceLists ==
    {<<>>, <<DeviceElement(1, "tablet")>>, <<DeviceElement(9, "phone")>>,
     <<DeviceElement(1, "tablet"), DeviceElement(4, ""), DeviceElement(9, "phone")>>}

ServedNodes ==
    {nodes \in UNION {[S -> {<<>>} \cup {[i \in {"current"} |-> [id |-> "current", deviceList |-> l]] :
                                           l \in ServedDeviceLists}] :
                         S \in SUBSET {deviceBundlesNode("A"), deviceListNode}} :
        deviceBundlesNode("A") \in DOMAIN nodes => nodes[deviceBundlesNode("A")] = <<>>}

InitPublish ==
    /\ WITH_OMEMO_V03 \in BOOLEAN
    /\ maximumDevicesPerStanza = [m \in Managers |-> DEVICES_PER_STANZA_MAX]
    /\ calls = [m \in Managers |-> <<>>]
    /\ now = 14
    /\ wire = <<>>
    /\ decryptions = [m \in Managers |-> <<>>]
    /\ cipherRuns = {}
    /\ \E known \in {NoRegistry, [a \in {<<"alice", 1>>} |-> OtherOwnDevice]} :
          devices = [m \in Managers |-> IF m = "A" THEN known ELSE NoRegistry]
    /\ omemoStorage = devices
    /\ trustLevels = [m \in Managers |-> NoTrust]
    /\ securityPolicy = [m \in Managers |-> "Toakafa"]
    /\ \E cap \in {SmallJidCap, DEVICES_PER_JID_MAX} :
          maximumDevicesPerJid = [m \in Managers |-> cap]
    /\ \E features \in SUBSET PepFeatures, nodes \in ServedNodes :
          /\ "publish" \in features \/ features = PepFeatures \ {"publish"}
          /\ pepService = [features |-> features, nodes |-> nodes]
    /\ publishing = [m \in Managers |-> NoPublication]
    /\ updates = [m \in Managers |-> <<>>]
    /\ ownData = [m \in Managers |-> NoOwnData]
    /\ operations = [m \in Managers |-> NoOperation]
    /\ subscriptions = [m \in Managers |-> <<>>]

NextPublish ==
    \/ PublishOmemoData("A")
    \/ PepFeaturesReceived("A")
    \/ PepNodesFetched("A")
    \/ DeviceBundleRequestAnswered("A")
    \/ OwnDeviceListReceived("A")
    \/ DeviceListRequestAnswered("A")

SpecPublish == InitPublish /\ [][NextPublish]_vars

-----------------------------------------------------------------------------
(* Properties of the publication *)

\* the bundle items of the device of manager m that the PEP service holds
ownBundleItems(m) ==
    LET items == nodeItems(pepService.nodes, deviceBundlesNode(m))
    IN {i \in DOMAIN items :
           items[i].deviceBundle = DeviceBundle(<<ownBareJid(m), ownDevice(m).id>>, TRUE)}

\* C15: every request of the publish fallback chain of publishDeviceBundle and of
\* publishDeviceElement (publication with publish options, creation of the node, creation
\* with configuration, configuration of the existing node) is issued only if the PEP service
\* announced the feature of that request.
CapabilityGating ==
    \A m \in Managers :
        \A request \in publishing[m].requests :
            LET features == publishing[m].pepServiceFeatures
            IN /\ request[2] = "publishItemWithOptions" => "publish-options" \in features
               /\ request[2] = "createNode" => "create-nodes" \in features
               /\ request[2] = "createAndConfigure" => "create-and-configure" \in features
               /\ request[2] = "configureNode" => "config-node" \in features

\* C16: once no request of a publishOmemoData call is left unanswered, the call has reported
\* exactly one boolean, and it has reported true only if the bundle item and then the device
\* list item with this device were published.
PublicationReported ==
    \A m \in Managers :
        publishing[m].pc = "none" =>
            /\ Len(publishing[m].results) = 1
            /\ publishing[m].results[1] =>
                  /\ ownBundleItems(m) # {}
                  /\ "current" \in DOMAIN nodeItems(pepService.nodes, deviceListNode)
                  /\ \E i \in DOMAIN pepService.nodes[deviceListNode]["current"].deviceList :
                         pepService.nodes[deviceListNode]["current"].deviceList[i] = ownDevice(m)

\* C17: once the bundle item has been published, and however often it is published again,
\* the PEP service holds exactly one bundle item of this device.
IdempotentBundlePublish ==
    \A m \in Managers :
        publishing[m].bundlePublications > 0 => Cardinality(ownBundleItems(m)) = 1

IdempotentBundlePublishWitness ==
    /\ publishing["A"].bundlePublications > 1
    /\ Cardinality(ownBundleItems("A")) = 1

-----------------------------------------------------------------------------
(* Device lists received from the PEP services *)

deviceIdsOf(deviceList) == {deviceList[i].id : i \in DOMAIN deviceList}

\* updateDevices: the search for inconsistencies in the own device list; elements with an
\* id seen before are erased, and so is, with OMEMO 2, the element of this device
RECURSIVE searchInconsistencies(_, _, _)
searchInconsistencies(m, deviceList, deviceIds) ==
    IF deviceList = <<>> THEN [deviceList |-> <<>>, isOwnDeviceListIncorrect |-> FALSE]
    ELSE LET deviceElement == Head(deviceList)
             isKnownId == deviceElement.id \in deviceIds
             rest == searchInconsistencies(m, Tail(deviceList), deviceIds \cup {deviceElement.id})
             isOwnElement == ~WITH_OMEMO_V03 /\ deviceElement.id = ownDevice(m).id
         IN [deviceList |->
                 IF isKnownId \/ isOwnElement THEN rest.deviceList
                 ELSE <<deviceElement>> \o rest.deviceList,
             isOwnDeviceListIncorrect |->
                 \/ rest.isOwnDeviceListIncorrect
                 \/ isKnownId
                 \/ ~isKnownId /\ isOwnElement /\ deviceElement.label # ownDevice(m).label]

\* updateDevices: locally stored devices that are not in the device list get a timestamp
setRemovalDates(st, jid, deviceList, currentDate) ==
    LET removed == {a \in DOMAIN st.devs : a[1] = jid /\ a[2] \notin deviceIdsOf(deviceList)}
        stamped(d) == [d EXCEPT !.removalFromDeviceListDate = currentDate]
    IN [st EXCEPT !.devs = [a \in DOMAIN @ |-> IF a \in removed THEN stamped(@[a]) ELSE @[a]],
                  !.storage = [a \in DOMAIN @ \cup removed |->
                                  IF a \in removed THEN stamped(st.devs[a]) ELSE @[a]]]

\* updateDevices: stored devices of the device list lose their timestamp and take the new
\* label, new devices of the device list are stored
RECURSIVE storeDevices(_, _, _)
storeDevices(st, jid, deviceList) ==
    IF deviceList = <<>> THEN st
    ELSE LET deviceElement == Head(deviceList)
             a == <<jid, deviceElement.id>>
             device == [deviceValue(st.devs, a) EXCEPT !.removalFromDeviceListDate = 0,
                                                       !.label = deviceElement.label]
             isStored == a \in DOMAIN st.devs /\ st.devs[a] = device
         IN storeDevices(
                IF isStored THEN st
                ELSE [st EXCEPT !.devs = devicePut(@, a, device),
                                !.storage = devicePut(@, a, device)],
                jid, Tail(deviceList))

\* ManagerPrivate::updateDevices, up to the publication of a corrected own device list
updateDevices(st, m, deviceOwnerJid, deviceList, maximum, currentDate) ==
    LET manageable == firstElements(deviceList, maximum)
        searched == IF ownBareJid(m) = deviceOwnerJid
                    THEN searchInconsistencies(m, manageable, {})
                    ELSE [deviceList |-> manageable, isOwnDeviceListIncorrect |-> FALSE]
    IN [st |-> storeDevices(
                   setRemovalDates(st, deviceOwnerJid, searched.deviceList, currentDate),
                   deviceOwnerJid, searched.deviceList),
        isOwnDeviceListIncorrect |-> searched.isOwnDeviceListIncorrect]

\* a call of updateDevices; deviceOwnerJid, deviceList, item and others are not read by the
\* code: the arguments of the call, the device list item it published and the ids of the
\* other own devices known at that time
applyDeviceList(m, deviceOwnerJid, deviceList) ==
    LET updated == updateDevices([devs |-> devices[m], storage |-> omemoStorage[m]], m,
                                 deviceOwnerJid, deviceList, maximumDevicesPerJid[m], now)
        item == deviceListItem(m, updated.st.devs, TRUE)
    IN /\ devices' = [devices EXCEPT ![m] = updated.st.devs]
       /\ omemoStorage' = [omemoStorage EXCEPT ![m] = updated.st.storage]
       /\ updates' = [updates EXCEPT ![m] = Append(@,
              [deviceOwnerJid |-> deviceOwnerJid, deviceList |-> deviceList,
               isRepublished |-> updated.isOwnDeviceListIncorrect,
               item |-> IF updated.isOwnDeviceListIncorrect THEN item
                        ELSE [id |-> "", deviceList |-> <<>>],
               others |-> {a[2] : a \in otherOwnDevices(updated.st.devs, m)}
                             \ {ownDevice(m).id}])]
       /\ \E isPublished \in BOOLEAN :
             pepService' =
                 IF updated.isOwnDeviceListIncorrect /\ isPublished
                 THEN [pepService EXCEPT !.nodes = publishedItem(@, deviceListNode, item)]
                 ELSE pepService

UpdateDevices(m, deviceOwnerJid, deviceList) ==
    /\ Len(updates[m]) < MaxUpdates
    /\ applyDeviceList(m, deviceOwnerJid, deviceList)
    /\ UNCHANGED <<WITH_OMEMO_V03, trustLevels, securityPolicy, maximumDevicesPerStanza, calls,
                   now, wire, decryptions, cipherRuns, maximumDevicesPerJid, publishing, ownData,
                   operations, subscriptions>>

\* the clock advances by a week or by DEVICE_REMOVAL_INTERVAL
Tick ==
    /\ \E weeks \in {1, DEVICE_REMOVAL_INTERVAL} :
          /\ now + weeks <= MaxWeeks
          /\ now' = now + weeks
    /\ UNCHANGED <<pubSubVars, WITH_OMEMO_V03, devices, omemoStorage, trustLevels,
                   securityPolicy, maximumDevicesPerStanza, calls, wire, decryptions,
                   cipherRuns>>

-----------------------------------------------------------------------------
(* Specification of manager A keeping its devices up to date *)

\* the device lists manager A may receive for alice and for bob
ReceivedDeviceLists(jid) ==
    IF jid = "alice"
    THEN ServedDeviceLists
         \cup {<<DeviceElement(1, "tablet"), DeviceElement(1, "tablet")>>,
               <<DeviceElement(9, "old"), DeviceElement(4, "")>>,
               <<DeviceElement(9, "phone"), DeviceElement(1, "pad")>>,
               <<DeviceElement(9, "phone"), DeviceElement(9, "phone")>>}
    ELSE {<<>>, <<DeviceElement(2, "")>>, <<DeviceElement(2, ""), DeviceElement(3, "pc")>>,
          <<DeviceElement(3, ""), DeviceElement(5, ""), DeviceElement(2, "")>>}

\* what manager A holds: nothing, or another device of alice and one or two devices of bob,
\* one of which may have left bob's device list in week 1 or in week 13
InitDevicesKnown ==
    {[a \in {} |-> Known(a, FALSE, FALSE, 0, 0, "Undecided")]}
        \cup {[a \in {<<"alice", 1>>, <<"bob", 2>>} |->
                  Known(a, TRUE, TRUE, 0, IF a[1] = "bob" THEN r ELSE 0, "Authenticated")] :
                 r \in {0, 1}}
        \cup {[a \in {<<"bob", 2>>, <<"bob", 3>>} |->
                  Known(a, TRUE, TRUE, 0, IF a[2] = 2 THEN r ELSE 0, "Authenticated")] :
                 r \in {1, 13}}

InitDevices ==
    /\ WITH_OMEMO_V03 \in BOOLEAN
    /\ maximumDevicesPerStanza = [m \in Managers |-> DEVICES_PER_STANZA_MAX]
    /\ calls = [m \in Managers |-> <<>>]
    /\ now = 14
    /\ wire = <<>>
    /\ decryptions = [m \in Managers |-> <<>>]
    /\ cipherRuns = {}
    /\ \E known \in InitDevicesKnown :
          /\ devices = [m \in Managers |-> IF m = "A" THEN registryOf(known) ELSE NoRegistry]
          /\ trustLevels = [m \in Managers |-> IF m = "A" THEN trustOf(known) ELSE NoTrust]
    /\ omemoStorage = devices
    /\ securityPolicy = [m \in Managers |-> "Toakafa"]
    /\ \E cap \in {SmallJidCap, DEVICES_PER_JID_MAX} :
          maximumDevicesPerJid = [m \in Managers |-> cap]
    /\ pepService = [features |-> PepFeatures, nodes |-> createdNode(<<>>, deviceListNode)]
    /\ publishing = [m \in Managers |-> NoPublication]
    /\ updates = [m \in Managers |-> <<>>]
    /\ ownData = [m \in Managers |-> NoOwnData]
    /\ operations = [m \in Managers |-> NoOperation]
    /\ subscriptions = [m \in Managers |-> <<>>]

DeviceListReceived ==
    \E jid \in {"alice", "bob"} :
        \E deviceList \in ReceivedDeviceLists(jid) : UpdateDevices("A", jid, deviceList)

NextDevices == DeviceListReceived \/ Tick \/ Sweep

SpecDevices == InitDevices /\ [][NextDevices]_vars

-----------------------------------------------------------------------------
(* Properties of the local devices *)

hasDuplicates(deviceList) ==
    \E i, j \in DOMAIN deviceList : i # j /\ deviceList[i].id = deviceList[j].id

occurrences(deviceList, id) == Cardinality({i \in DOMAIN deviceList : deviceList[i].id = id})

\* C18: whenever updateDevices is given the own device list and the list has duplicate
\* ids, no element for this device, or an element for this device with another label than
\* ownDevice.label, it republishes a device list item with this device once, under its
\* current label, and with every other own device once.
OwnDeviceListReconciliation ==
    \A m \in Managers :
        \A i \in DOMAIN updates[m] :
            LET update == updates[m][i]
                own == ownDevice(m)
                isIncorrect ==
                    \/ hasDuplicates(update.deviceList)
                    \/ own.id \notin deviceIdsOf(update.deviceList)
                    \/ \E k \in DOMAIN update.deviceList :
                           /\ update.deviceList[k].id = own.id
                           /\ update.deviceList[k].label # own.label
            IN update.deviceOwnerJid = ownBareJid(m) /\ isIncorrect =>
                   /\ update.isRepublished
                   /\ occurrences(update.item.deviceList, own.id) = 1
                   /\ \E k \in DOMAIN update.item.deviceList : update.item.deviceList[k] = own
                   /\ \A id \in update.others : occurrences(update.item.deviceList, id) = 1

\* C19: a call updateDevices(jid, list) leaves every stored device of jid whose id is not
\* in list with a removal timestamp, every stored device of jid whose id is in list
\* without one, and a record for each of the first maximumDevicesPerJid ids of list, this
\* device's own id under the own JID excepted.
DeviceListApplied ==
    [][\A m \in Managers :
           Len(updates'[m]) > Len(updates[m]) =>
               LET update == updates'[m][Len(updates'[m])]
                   jid == update.deviceOwnerJid
                   listed == deviceIdsOf(update.deviceList)
                   manageable == deviceIdsOf(firstElements(update.deviceList,
                                                           maximumDevicesPerJid[m]))
               IN /\ \A a \in DOMAIN devices'[m] :
                         a[1] = jid =>
                             ((devices'[m][a].removalFromDeviceListDate = 0) <=> a[2] \in listed)
                  /\ \A id \in manageable :
                         ~(jid = ownBareJid(m) /\ id = ownDevice(m).id) =>
                             <<jid, id>> \in DOMAIN devices'[m]]_vars

\* C20: a run of removeDevicesRemovedFromServer erases from memory and from storage every
\* device whose removal timestamp is more than DEVICE_REMOVAL_INTERVAL in the past, removes
\* the key of each erased device from the trust storage, and leaves every other device, in
\* memory, in storage and in the trust storage, as it was.
AgingSweep ==
    [][\A m \in Managers :
           DOMAIN devices'[m] # DOMAIN devices[m] /\ DOMAIN devices'[m] \subseteq DOMAIN devices[m] =>
               LET expired == {a \in DOMAIN devices[m] :
                                  /\ devices[m][a].removalFromDeviceListDate # 0
                                  /\ now - devices[m][a].removalFromDeviceListDate
                                         > DEVICE_REMOVAL_INTERVAL}
                   keyOf(a) == <<a[1], devices[m][a].keyId>>
               IN /\ \A a \in expired :
                         /\ a \notin DOMAIN devices'[m]
                         /\ a \notin DOMAIN omemoStorage'[m]
                         /\ keyOf(a) \notin DOMAIN trustLevels'[m]
                  /\ \A a \in DOMAIN devices[m] \ expired :
                         /\ a \in DOMAIN devices'[m] /\ devices'[m][a] = devices[m][a]
                         /\ a \in DOMAIN omemoStorage[m] =>
                                /\ a \in DOMAIN omemoStorage'[m]
                                /\ omemoStorage'[m][a] = omemoStorage[m][a]
                         /\ keyOf(a) \in DOMAIN trustLevels[m] =>
                                keyOf(a) \in DOMAIN trustLevels'[m]]_vars

-----------------------------------------------------------------------------
(* Own pre key pairs and signed pre key pairs *)

\* what the library does with one call: isGenerated says whether the key pairs
\* are generated, serialized how many of them are serialized completely
LibraryKeyOutcome(count) == [isGenerated : BOOLEAN, serialized : 0..count]

\* the first id handed to the library.  The code adds two uint32_t values,
\* which cannot wrap here; "latest + count > MAX" is written without the sum.
firstPreKeyId(latestPreKeyId, count) ==
    IF latestPreKeyId > PRE_KEY_ID_MAX - count THEN PRE_KEY_ID_MIN
    ELSE IF latestPreKeyId # PRE_KEY_ID_MIN THEN latestPreKeyId + 1
    ELSE latestPreKeyId

\* signal_protocol_key_helper_generate_pre_keys(start, count): consecutive ids
generatedPreKeyIds(start, count) == {start + i - 1 : i \in 1..count}

\* ManagerPrivate::updatePreKeyPairs.  isUpdated is the value returned;
\* newIds and liveIds record the ids inserted and the ids they were inserted into.
updatePreKeyPairs(own, count, lib) ==
    LET latestPreKeyId == firstPreKeyId(own.ownDevice.latestPreKeyId, count)
        serializedPreKeyPairs == generatedPreKeyIds(latestPreKeyId, count)
    IN IF ~lib.isGenerated
       THEN [own EXCEPT !.isUpdated = FALSE]
       ELSE IF lib.serialized < count
       THEN [own EXCEPT !.isUpdated = FALSE,
                        !.deviceBundle.publicPreKeys =
                            @ \cup generatedPreKeyIds(latestPreKeyId, lib.serialized)]
       ELSE [own EXCEPT !.isUpdated = TRUE,
                        !.deviceBundle.publicPreKeys = @ \cup serializedPreKeyPairs,
                        !.preKeyPairs = @ \cup serializedPreKeyPairs,
                        !.omemoStorage.preKeyPairs = @ \cup serializedPreKeyPairs,
                        !.ownDevice.latestPreKeyId = latestPreKeyId - 1 + count,
                        !.last.newIds = serializedPreKeyPairs,
                        !.last.liveIds = own.preKeyPairs]

\* ManagerPrivate::renewPreKeyPairs, called by the store's remove_pre_key
renewPreKeyPairs(own, keyPairBeingRenewed, lib) ==
    LET removed == [own EXCEPT !.preKeyPairs = @ \ {keyPairBeingRenewed},
                               !.omemoStorage.preKeyPairs = @ \ {keyPairBeingRenewed},
                               !.deviceBundle.publicPreKeys = @ \ {keyPairBeingRenewed},
                               !.last = [op |-> "renewPreKeyPairs",
                                         id |-> keyPairBeingRenewed,
                                         preKeyPairs |-> own.preKeyPairs,
                                         newIds |-> {}, liveIds |-> {}, pruned |-> {},
                                         date |-> 0, isPublished |-> FALSE]]
        updated == updatePreKeyPairs(removed, 1, lib)
    IN IF ~updated.isUpdated
       THEN updated
       ELSE [updated EXCEPT !.omemoStorage.ownDevice = updated.ownDevice,
                            !.publications = @ + 1,
                            !.last.isPublished = TRUE]

\* the first signed id handed to the library
firstSignedPreKeyId(latestSignedPreKeyId) ==
    IF latestSignedPreKeyId > SIGNED_PRE_KEY_ID_MAX - 1 THEN SIGNED_PRE_KEY_ID_MIN
    ELSE IF latestSignedPreKeyId # SIGNED_PRE_KEY_ID_MIN THEN latestSignedPreKeyId + 1
    ELSE latestSignedPreKeyId

\* ManagerPrivate::updateSignedPreKeyPair.  lib.serialized counts the two
\* serializations: of the key pair, then of its public key.
updateSignedPreKeyPair(own, currentDate, lib) ==
    LET latestSignedPreKeyId == firstSignedPreKeyId(own.ownDevice.latestSignedPreKeyId)
        stored == [own EXCEPT !.signedPreKeyPairs =
                                  [id \in DOMAIN @ \cup {latestSignedPreKeyId} |->
                                      IF id = latestSignedPreKeyId THEN currentDate ELSE @[id]],
                              !.omemoStorage.signedPreKeyPairs =
                                  [id \in DOMAIN @ \cup {latestSignedPreKeyId} |->
                                      IF id = latestSignedPreKeyId THEN currentDate ELSE @[id]],
                              !.last.newIds = {latestSignedPreKeyId},
                              !.last.liveIds = DOMAIN own.signedPreKeyPairs]
    IN IF ~lib.isGenerated \/ lib.serialized = 0
       THEN [own EXCEPT !.isUpdated = FALSE]
       ELSE IF lib.serialized < 2
       THEN [stored EXCEPT !.isUpdated = FALSE]
       ELSE [stored EXCEPT !.isUpdated = TRUE,
                           !.deviceBundle.signedPublicPreKeyId = latestSignedPreKeyId,
                           !.deviceBundle.signedPublicPreKeyDate = currentDate,
                           !.ownDevice.latestSignedPreKeyId = latestSignedPreKeyId]

\* the entries renewSignedPreKeyPairs erases at currentDate
oldSignedPreKeyPairs(signedPreKeyPairs, currentDate) ==
    {id \in DOMAIN signedPreKeyPairs :
        currentDate - signedPreKeyPairs[id] > SIGNED_PRE_KEY_RENEWAL_INTERVAL}

\* the keys "itr.key()" can yield after "itr = signedPreKeyPairs.erase(itr)":
\* the key of the entry after the erased one, in the hash's order, or what
\* is read at end().  One key is read for each erased entry.
keysReadAfterErase(own, currentDate) ==
    {reads \in SUBSET (DOMAIN own.omemoStorage.signedPreKeyPairs) :
        Cardinality(reads) <= Cardinality(oldSignedPreKeyPairs(own.signedPreKeyPairs, currentDate))}

\* ManagerPrivate::renewSignedPreKeyPairs, run by signedPreKeyPairsRenewalTimer
renewSignedPreKeyPairs(own, currentDate, reads, lib) ==
    LET old == oldSignedPreKeyPairs(own.signedPreKeyPairs, currentDate)
        isSignedPreKeyPairRemoved == old # {}
        erased == [own EXCEPT !.signedPreKeyPairs = [id \in DOMAIN @ \ old |-> @[id]],
                              !.omemoStorage.signedPreKeyPairs =
                                  [id \in DOMAIN @ \ reads |-> @[id]],
                              !.last = [op |-> "renewSignedPreKeyPairs",
                                        id |-> 0,
                                        preKeyPairs |-> own.preKeyPairs,
                                        newIds |-> {}, liveIds |-> {}, pruned |-> old,
                                        date |-> currentDate, isPublished |-> FALSE]]
        updated == updateSignedPreKeyPair(erased, currentDate, lib)
    IN IF ~isSignedPreKeyPairRemoved
       THEN erased
       ELSE [updated EXCEPT !.omemoStorage.ownDevice = updated.ownDevice,
                            !.publications = @ + 1,
                            !.last.isPublished = TRUE]

\* the own data before setup: the counters at their minimum ("Do not
\* increment during setup"), no key pairs
OwnDataBeforeSetup ==
    [ownDevice |-> [id |-> 0, latestPreKeyId |-> PRE_KEY_ID_MIN,
                    latestSignedPreKeyId |-> SIGNED_PRE_KEY_ID_MIN],
     preKeyPairs |-> {},
     signedPreKeyPairs |-> <<>>,
     deviceBundle |-> [publicPreKeys |-> {}, signedPublicPreKeyId |-> 0,
                       signedPublicPreKeyDate |-> 0],
     omemoStorage |-> [ownDevice |-> [id |-> 0, latestPreKeyId |-> PRE_KEY_ID_MIN,
                                      latestSignedPreKeyId |-> SIGNED_PRE_KEY_ID_MIN],
                       preKeyPairs |-> {},
                       signedPreKeyPairs |-> <<>>],
     publications |-> 0,
     renewals |-> 0,
     isUpdated |-> TRUE,
     \* not read by the code: the last operation and what it did
     last |-> [op |-> "none", id |-> 0, preKeyPairs |-> {}, newIds |-> {},
               liveIds |-> {}, pruned |-> {}, date |-> 0, isPublished |-> FALSE]]

AllSucceeds(count) == [isGenerated |-> TRUE, serialized |-> count]

\* the own data after setup at currentDate
OwnDataAfterSetup(currentDate) ==
    LET withPreKeys == updatePreKeyPairs(OwnDataBeforeSetup, PRE_KEY_INITIAL_CREATION_COUNT,
                                         AllSucceeds(PRE_KEY_INITIAL_CREATION_COUNT))
        withSignedPreKey == updateSignedPreKeyPair(withPreKeys, currentDate, AllSucceeds(2))
    IN [withSignedPreKey EXCEPT !.omemoStorage.ownDevice = withSignedPreKey.ownDevice,
                                !.last = OwnDataBeforeSetup.last]

\* the own data of a device that consumed pre keys until the counter reached
\* its maximum: the pool holds the last PRE_KEY_INITIAL_CREATION_COUNT ids
OwnDataOfLongUse(currentDate) ==
    LET own == OwnDataAfterSetup(currentDate)
        ids == {PRE_KEY_ID_MAX - i + 1 : i \in 1..PRE_KEY_INITIAL_CREATION_COUNT}
    IN [own EXCEPT !.preKeyPairs = ids,
                   !.deviceBundle.publicPreKeys = ids,
                   !.omemoStorage.preKeyPairs = ids,
                   !.ownDevice.latestPreKeyId = PRE_KEY_ID_MAX,
                   !.omemoStorage.ownDevice.latestPreKeyId = PRE_KEY_ID_MAX]

smallest(ids) == CHOOSE id \in ids : \A other \in ids : id <= other
largest(ids) == CHOOSE id \in ids : \A other \in ids : id >= other

\* the pre keys a session setup consumes in the model
ConsumedPreKeys(preKeyPairs) ==
    IF preKeyPairs = {} THEN {}
    ELSE {smallest(preKeyPairs), largest(preKeyPairs)}

\* store.remove_pre_key: the library consumed the pre key pre_key_id
RemovePreKey(m) ==
    /\ ownData[m] # NoOwnData
    /\ ownData[m].renewals < MaxRenewals
    /\ \E pre_key_id \in ConsumedPreKeys(ownData[m].preKeyPairs),
          lib \in LibraryKeyOutcome(1) :
          ownData' = [ownData EXCEPT ![m] =
              [renewPreKeyPairs(@, pre_key_id, lib) EXCEPT !.renewals = @ + 1]]
    /\ UNCHANGED <<WITH_OMEMO_V03, devices, omemoStorage, trustLevels, securityPolicy,
                   maximumDevicesPerStanza, calls, now, wire, decryptions, cipherRuns,
                   maximumDevicesPerJid, pepService, publishing, updates,
                   operations, subscriptions>>

\* signedPreKeyPairsRenewalTimer times out
RenewSignedPreKeyPairs(m) ==
    /\ ownData[m] # NoOwnData
    /\ \E reads \in keysReadAfterErase(ownData[m], now), lib \in LibraryKeyOutcome(2) :
          ownData' = [ownData EXCEPT ![m] = renewSignedPreKeyPairs(@, now, reads, lib)]
    /\ UNCHANGED <<WITH_OMEMO_V03, devices, omemoStorage, trustLevels, securityPolicy,
                   maximumDevicesPerStanza, calls, now, wire, decryptions, cipherRuns,
                   maximumDevicesPerJid, pepService, publishing, updates,
                   operations, subscriptions>>

PreKeyRemoved == RemovePreKey("A")
RenewalTimerTimedOut == RenewSignedPreKeyPairs("A")

-----------------------------------------------------------------------------
(* Specification of manager A renewing its key pairs *)

\* the date of the setup: two renewal intervals before the clock stops
FirstKeyDate == MaxWeeks - 2 * SIGNED_PRE_KEY_RENEWAL_INTERVAL - 2

InitKeys ==
    /\ WITH_OMEMO_V03 = FALSE
    /\ devices = [m \in Managers |-> NoRegistry]
    /\ omemoStorage = devices
    /\ trustLevels = [m \in Managers |-> NoTrust]
    /\ securityPolicy = [m \in Managers |-> "NoSecurityPolicy"]
    /\ maximumDevicesPerStanza = [m \in Managers |-> DEVICES_PER_STANZA_MAX]
    /\ calls = [m \in Managers |-> <<>>]
    /\ now = FirstKeyDate
    /\ wire = <<>>
    /\ decryptions = [m \in Managers |-> <<>>]
    /\ cipherRuns = {}
    /\ maximumDevicesPerJid = [m \in Managers |-> DEVICES_PER_JID_MAX]
    /\ pepService = NoPepService
    /\ publishing = [m \in Managers |-> NoPublication]
    /\ updates = [m \in Managers |-> <<>>]
    /\ \E own \in {OwnDataAfterSetup(FirstKeyDate), OwnDataOfLongUse(FirstKeyDate)} :
          ownData = [m \in Managers |-> IF m = "A" THEN own ELSE NoOwnData]
    /\ operations = [m \in Managers |-> NoOperation]
    /\ subscriptions = [m \in Managers |-> <<>>]

NextKeys == PreKeyRemoved \/ RenewalTimerTimedOut \/ Tick

SpecKeys == InitKeys /\ [][NextKeys]_vars

-----------------------------------------------------------------------------
(* Properties of the key pairs *)

\* the managers whose last key operation is op
lastOperation(m, op) == ownData[m] # NoOwnData /\ ownData[m].last.op = op

\* C21: after remove_pre_key consumed an id of the pool and the library generated
\* the replacement, the id is in neither preKeyPairs nor the device bundle,
\* exactly one fresh pre key was added so that the pool has its previous size,
\* the bundle's pre key ids are those of preKeyPairs, and the bundle is republished.
PreKeyConsumption ==
    \A m \in Managers :
        /\ lastOperation(m, "renewPreKeyPairs")
        /\ ownData[m].last.id \in ownData[m].last.preKeyPairs
        /\ ownData[m].isUpdated
        => LET own == ownData[m]
           IN /\ own.last.id \notin own.preKeyPairs
              /\ own.last.id \notin own.deviceBundle.publicPreKeys
              /\ Cardinality(own.last.newIds \ own.last.preKeyPairs) = 1
              /\ Cardinality(own.preKeyPairs) = Cardinality(own.last.preKeyPairs)
              /\ own.deviceBundle.publicPreKeys = own.preKeyPairs
              /\ own.last.isPublished

\* C22: every id updatePreKeyPairs or updateSignedPreKeyPair inserts lies in
\* 1..INT32_MAX and differs from every id that was in the pool when it was inserted.
KeyIdAllocation ==
    \A m \in Managers :
        ownData[m] # NoOwnData =>
            \A id \in ownData[m].last.newIds :
                /\ id >= 1
                /\ id <= PRE_KEY_ID_MAX
                /\ id \notin ownData[m].last.liveIds

\* C23: after a renewSignedPreKeyPairs tick no signed pre key pair is older than
\* the renewal interval, the bundle's signed pre key id is latestSignedPreKeyId
\* and is in signedPreKeyPairs, and when a pair was pruned a new one was
\* created and the bundle republished.
SignedPreKeyRotation ==
    \A m \in Managers :
        lastOperation(m, "renewSignedPreKeyPairs")
        => LET own == ownData[m]
           IN /\ oldSignedPreKeyPairs(own.signedPreKeyPairs, own.last.date) = {}
              /\ own.deviceBundle.signedPublicPreKeyId = own.ownDevice.latestSignedPreKeyId
              /\ own.ownDevice.latestSignedPreKeyId \in DOMAIN own.signedPreKeyPairs
              /\ own.last.pruned # {} => own.last.newIds # {} /\ own.last.isPublished

\* C24: whenever no operation is in flight, the storage holds the device records,
\* the pre key pairs, the signed pre key pairs and the own device of the memory.
DurableMirror ==
    Idle => \A m \in Managers :
                /\ omemoStorage[m] = devices[m]
                /\ ownData[m] # NoOwnData =>
                       /\ ownData[m].omemoStorage.preKeyPairs = ownData[m].preKeyPairs
                       /\ ownData[m].omemoStorage.signedPreKeyPairs = ownData[m].signedPreKeyPairs
                       /\ ownData[m].omemoStorage.ownDevice = ownData[m].ownDevice

-----------------------------------------------------------------------------
(* Building a session from the parts of a device bundle *)

\* the outcomes of the library calls of buildSession
SessionLibraryOutcome == [isBuilderCreated : BOOLEAN, isBundleCreated : BOOLEAN]

\* a serialized key is "key" if curve_decode_point decodes it, "junk" if not, and
\* <<>> if it is empty; a signature is its size and whether it is the identity key's
SerializedKeys == {"key", "junk"}

\* deserializePublicIdentityKey, deserializeSignedPublicPreKey, deserializePublicPreKey
isDeserializable(serializedKey) == serializedKey = "key"

\* ManagerPrivate::createSessionBundle
createSessionBundle(deviceBundle, serializedPublicPreKey, lib) ==
    IF /\ isDeserializable(deviceBundle.publicIdentityKey)
       /\ isDeserializable(deviceBundle.signedPublicPreKey)
       /\ deviceBundle.signedPublicPreKeySignature.size # 0
       /\ isDeserializable(serializedPublicPreKey)
    THEN lib.isBundleCreated
    ELSE FALSE

\* buildSession from "SessionBuilderPtr sessionBuilder" on, with the chosen pre key.
\* session_builder_process_pre_key_bundle verifies the signature and stores the session.
buildSessionWithPreKey(st, a, deviceBundle, publicPreKey, lib) ==
    IF ~lib.isBuilderCreated
    THEN [st |-> st, pc |-> "returned", ok |-> FALSE]
    ELSE IF ~createSessionBundle(deviceBundle, publicPreKey, lib)
    THEN [st |-> st, pc |-> "returned", ok |-> FALSE]
    ELSE IF ~deviceBundle.signedPublicPreKeySignature.isValid
    THEN [st |-> st, pc |-> "returned", ok |-> FALSE]
    ELSE [st |-> storeSession(st, a, SessionRecord), pc |-> "returned", ok |-> TRUE]

\* what "publicPreKeyIds.at(publicPreKeyIndex)" does: with pre keys, one of them is
\* chosen; without, bounded(0) or "qrand() % 0" and the read of an empty list either
\* end the program or read an id that is not in the empty publicPreKeys
PreKeyChoices(deviceBundle) ==
    IF DOMAIN deviceBundle.publicPreKeys # {}
    THEN {[pc |-> "chosen", publicPreKey |-> deviceBundle.publicPreKeys[id]] :
             id \in DOMAIN deviceBundle.publicPreKeys}
    ELSE {[pc |-> "crashed", publicPreKey |-> <<>>],
          [pc |-> "chosen", publicPreKey |-> <<>>]}

\* ManagerPrivate::buildSession(address, deviceBundle), all of it
buildSessionOfBundle(st, a, deviceBundle, choice, lib) ==
    IF choice.pc = "crashed"
    THEN [st |-> st, pc |-> "crashed", ok |-> FALSE]
    ELSE buildSessionWithPreKey(st, a, deviceBundle, choice.publicPreKey, lib)

\* the device bundles buildSession is called with
SessionBundles ==
    [publicIdentityKey : SerializedKeys,
     signedPublicPreKey : SerializedKeys,
     signedPublicPreKeySignature : {[size |-> 0, isValid |-> FALSE],
                                    [size |-> 64, isValid |-> FALSE],
                                    [size |-> 64, isValid |-> TRUE]},
     publicPreKeys : {<<>>, <<"key">>, <<"junk">>, <<"key", "key">>, <<"key", "junk">>}]

\* buildSession runs for the call under way
BuildSession(m) ==
    /\ operations[m].pc = "buildSession"
    /\ \E choice \in PreKeyChoices(operations[m].deviceBundle), lib \in SessionLibraryOutcome :
          LET st == [devices |-> devices[m], omemoStorage |-> omemoStorage[m]]
              b == buildSessionOfBundle(st, operations[m].address,
                                        operations[m].deviceBundle, choice, lib)
          IN /\ devices' = [devices EXCEPT ![m] = b.st.devices]
             /\ omemoStorage' = [omemoStorage EXCEPT ![m] = b.st.omemoStorage]
             /\ operations' = [operations EXCEPT ![m] =
                    [@ EXCEPT !.pc = b.pc, !.ok = b.ok,
                              \* not read by the code
                              !.publicPreKey = choice.publicPreKey,
                              !.isRejected = ~lib.isBuilderCreated \/ ~lib.isBundleCreated
                                  \/ ~operations[m].deviceBundle.signedPublicPreKeySignature.isValid]]
    /\ UNCHANGED <<WITH_OMEMO_V03, trustLevels, securityPolicy,
                   maximumDevicesPerStanza, calls, now, wire, decryptions, cipherRuns,
                   maximumDevicesPerJid, pepService, publishing, updates, ownData,
                   subscriptions>>

SessionBuilt == BuildSession("A")

-----------------------------------------------------------------------------
(* Specification of a call of buildSession on manager A *)

InitSession ==
    /\ WITH_OMEMO_V03 \in BOOLEAN
    /\ devices = [m \in Managers |-> NoRegistry]
    /\ omemoStorage = devices
    /\ trustLevels = [m \in Managers |-> NoTrust]
    /\ securityPolicy = [m \in Managers |-> "NoSecurityPolicy"]
    /\ maximumDevicesPerStanza = [m \in Managers |-> DEVICES_PER_STANZA_MAX]
    /\ calls = [m \in Managers |-> <<>>]
    /\ now = 0
    /\ wire = <<>>
    /\ decryptions = [m \in Managers |-> <<>>]
    /\ cipherRuns = {}
    /\ maximumDevicesPerJid = [m \in Managers |-> DEVICES_PER_JID_MAX]
    /\ pepService = NoPepService
    /\ publishing = [m \in Managers |-> NoPublication]
    /\ updates = [m \in Managers |-> <<>>]
    /\ ownData = [m \in Managers |-> NoOwnData]
    /\ subscriptions = [m \in Managers |-> <<>>]
    /\ \E deviceBundle \in SessionBundles :
          operations = [m \in Managers |->
              IF m = "A"
              THEN [pc |-> "buildSession", address |-> <<"bob", 2>>,
                    deviceBundle |-> deviceBundle, ok |-> FALSE,
                    publicPreKey |-> <<>>, isRejected |-> FALSE]
              ELSE NoOperation]

NextSession == SessionBuilt

SpecSession == InitSession /\ [][NextSession]_vars

-----------------------------------------------------------------------------
(* Properties of buildSession *)

\* C25: buildSession returns false and stores no session when the bundle offers no
\* pre keys, when a key or the signature cannot be deserialized, or when the library
\* rejects the bundle; it returns true only after the session was stored.
SessionBuildOutcome ==
    \A m \in Managers :
        LET call == operations[m]
            session == loadSession(devices[m], call.address)
        IN "deviceBundle" \in DOMAIN call /\ call.pc # "buildSession" =>
              /\ (\/ DOMAIN call.deviceBundle.publicPreKeys = {}
                  \/ ~isDeserializable(call.deviceBundle.publicIdentityKey)
                  \/ ~isDeserializable(call.deviceBundle.signedPublicPreKey)
                  \/ ~isDeserializable(call.publicPreKey)
                  \/ call.deviceBundle.signedPublicPreKeySignature.size = 0
                  \/ call.isRejected)
                 => call.pc = "returned" /\ ~call.ok /\ session = <<>>
              /\ call.pc = "returned" /\ call.ok => session # <<>>

-----------------------------------------------------------------------------
(* Setting up the id of the own device *)

\* the ids signal_protocol_key_helper_generate_registration_id yields in the model,
\* and its failure
GeneratedDeviceIds ==
    {[isGenerated |-> TRUE, deviceId |-> id] : id \in {1, 4, 7}}
        \cup {[isGenerated |-> FALSE, deviceId |-> 0]}

\* "deviceId == deviceElement.id()" for an element of deviceList
isInDeviceList(deviceList, deviceId) ==
    \E i \in DOMAIN deviceList : deviceList[i].id = deviceId

\* deviceIds.contains(QString::number(deviceId))
isInDeviceIds(deviceIds, deviceId) == ToString(deviceId) \in deviceIds

\* the loop "while (true)" of setUpDeviceId over the ids the library generates one
\* after the other; found holds the ids the test of the build finds.  Yields the call
\* finished; generations (not read by the code) counts the ids generated.
RECURSIVE generateDeviceId(_, _, _, _)
generateDeviceId(call, found, generated, i) ==
    IF i > Len(generated)
    THEN call
    ELSE IF ~generated[i].isGenerated
    THEN [call EXCEPT !.pc = "finished", !.result = FALSE, !.generations = i]
    ELSE IF generated[i].deviceId \notin found
    THEN [call EXCEPT !.pc = "finished", !.result = TRUE, !.deviceId = generated[i].deviceId,
                      !.generations = i]
    ELSE generateDeviceId(call, found, generated, i + 1)

\* the continuation of requestPepItem<QXmppOmemoDeviceListItem> (WITH_OMEMO_V03)
deviceListReceivedForSetUp(call, isError, item, generated) ==
    LET deviceList == IF isError THEN <<>> ELSE item.deviceList
        found == {g.deviceId : g \in {x \in GeneratedDeviceIds :
                                         isInDeviceList(deviceList, x.deviceId)}}
    IN generateDeviceId(call, found, generated, 1)

\* the continuation of requestPepItemIds(ns_omemo_2_bundles)
deviceIdsReceivedForSetUp(call, isError, deviceIds, generated) ==
    LET found == {g.deviceId : g \in {x \in GeneratedDeviceIds :
                                         isInDeviceIds(deviceIds, x.deviceId)}}
    IN IF isError
       THEN [call EXCEPT !.pc = "finished", !.result = FALSE]
       ELSE generateDeviceId(call, found, generated, 1)

\* ManagerPrivate::setUpDeviceId is called
SetUpDeviceId(m) ==
    /\ operations[m].pc = "none"
    /\ ownData[m] # NoOwnData
    /\ operations' = [operations EXCEPT ![m] =
           [pc |-> IF WITH_OMEMO_V03 THEN "requestPepItem" ELSE "requestPepItemIds",
            result |-> FALSE, deviceId |-> 0,
            \* not read by the code
            isRetrieved |-> FALSE, isGenerated |-> FALSE, generations |-> 0,
            before |-> ownData[m].ownDevice.id]]
    /\ UNCHANGED <<WITH_OMEMO_V03, devices, omemoStorage, trustLevels, securityPolicy,
                   maximumDevicesPerStanza, calls, now, wire, decryptions, cipherRuns,
                   maximumDevicesPerJid, pepService, publishing, updates, ownData,
                   subscriptions>>

\* the sequences of library outcomes on which the loop of setUpDeviceId ends
GenerationRuns ==
    UNION {[1..n -> GeneratedDeviceIds] : n \in 1..MaxGenerations}

\* the request of setUpDeviceId is answered
DeviceIdsReceived(m) ==
    /\ operations[m].pc \in {"requestPepItem", "requestPepItemIds"}
    /\ \E isAnswered \in BOOLEAN, generated \in GenerationRuns :
          LET call == operations[m]
              node == IF WITH_OMEMO_V03 THEN deviceListNode ELSE <<"bundles", 0>>
              items == nodeItems(pepService.nodes, node)
              isError == ~isAnswered \/ node \notin DOMAIN pepService.nodes
                             \/ (WITH_OMEMO_V03 /\ "current" \notin DOMAIN items)
              answered == IF WITH_OMEMO_V03
                          THEN deviceListReceivedForSetUp(
                                   call, isError,
                                   IF isError THEN <<>> ELSE items["current"], generated)
                          ELSE deviceIdsReceivedForSetUp(call, isError, DOMAIN items, generated)
          IN /\ answered.pc = "finished"
             /\ answered.generations \in {0, Len(generated)}
             /\ operations' = [operations EXCEPT ![m] =
                    [answered EXCEPT !.isRetrieved = ~isError,
                                     !.isGenerated =
                                         \A i \in 1..answered.generations :
                                             generated[i].isGenerated]]
             /\ ownData' = [ownData EXCEPT ![m].ownDevice.id =
                                IF answered.result THEN answered.deviceId ELSE @]
    /\ UNCHANGED <<WITH_OMEMO_V03, devices, omemoStorage, trustLevels, securityPolicy,
                   maximumDevicesPerStanza, calls, now, wire, decryptions, cipherRuns,
                   maximumDevicesPerJid, pepService, publishing, updates, subscriptions>>

SetUpDeviceIdCalled == SetUpDeviceId("A")
SetUpDeviceIdAnswered == DeviceIdsReceived("A")

-----------------------------------------------------------------------------
(* Specification of manager A setting up its device id *)

\* the device list of the devices with the ids of S, by ascending id
RECURSIVE publishedDeviceList(_)
publishedDeviceList(S) ==
    IF S = {} THEN <<>>
    ELSE <<DeviceElement(smallest(S), "")>> \o publishedDeviceList(S \ {smallest(S)})

\* a PEP service on which the devices with the ids of S published their list and bundles
PublishedNodes(S) ==
    [node \in {deviceListNode, <<"bundles", 0>>} |->
        IF node = deviceListNode
        THEN IF S = {} THEN <<>>
             ELSE [i \in {"current"} |-> [id |-> "current", deviceList |-> publishedDeviceList(S)]]
        ELSE [i \in {ToString(id) : id \in S} |->
                 [id |-> i, deviceBundle |-> DeviceBundle(<<"alice", 0>>, TRUE)]]]

\* the device ids published on the PEP service for the own account
PublishedDeviceIds ==
    {id \in 0..9 : \/ isInDeviceList(IF "current" \in DOMAIN nodeItems(pepService.nodes, deviceListNode)
                                     THEN pepService.nodes[deviceListNode]["current"].deviceList
                                     ELSE <<>>, id)
                   \/ ToString(id) \in DOMAIN nodeItems(pepService.nodes, <<"bundles", 0>>)}

InitSetUp ==
    /\ WITH_OMEMO_V03 \in BOOLEAN
    /\ devices = [m \in Managers |-> NoRegistry]
    /\ omemoStorage = devices
    /\ trustLevels = [m \in Managers |-> NoTrust]
    /\ securityPolicy = [m \in Managers |-> "NoSecurityPolicy"]
    /\ maximumDevicesPerStanza = [m \in Managers |-> DEVICES_PER_STANZA_MAX]
    /\ calls = [m \in Managers |-> <<>>]
    /\ now = 0
    /\ wire = <<>>
    /\ decryptions = [m \in Managers |-> <<>>]
    /\ cipherRuns = {}
    /\ maximumDevicesPerJid = [m \in Managers |-> DEVICES_PER_JID_MAX]
    /\ \E S \in SUBSET {1, 4, 9} :
          pepService = [features |-> PepFeatures, nodes |-> PublishedNodes(S)]
    /\ publishing = [m \in Managers |-> NoPublication]
    /\ updates = [m \in Managers |-> <<>>]
    /\ \E id \in {0, 9} :
          ownData = [m \in Managers |->
                        IF m = "A"
                        THEN [OwnDataBeforeSetup EXCEPT !.ownDevice.id = id,
                                                        !.omemoStorage.ownDevice.id = id]
                        ELSE NoOwnData]
    /\ operations = [m \in Managers |-> NoOperation]
    /\ subscriptions = [m \in Managers |-> <<>>]

NextSetUp == SetUpDeviceIdCalled \/ SetUpDeviceIdAnswered

SpecSetUp == InitSetUp /\ [][NextSetUp]_vars

-----------------------------------------------------------------------------
(* Properties of setUpDeviceId *)

\* C26: when setUpDeviceId reports true, ownDevice.id differs from every device id
\* published on the server for the own account; when the published ids cannot be
\* retrieved or an id cannot be generated, it reports false and leaves ownDevice.id
\* as it was.
DeviceIdAllocation ==
    \A m \in Managers :
        LET call == operations[m]
        IN call.pc = "finished" =>
              /\ call.result => ownData[m].ownDevice.id \notin PublishedDeviceIds
              /\ ~call.isRetrieved \/ ~call.isGenerated =>
                     /\ ~call.result
                     /\ ownData[m].ownDevice.id = call.before

-----------------------------------------------------------------------------
(* Properties of the device limit of a stanza *)

\* C27: when the recipients have more devices than maximumDevicesPerStanza and an
\* envelope can be created for at least one of them, encryptStanza reports an element
\* with envelopes for at most maximumDevicesPerStanza devices.
DeviceCapPerStanza ==
    \A c \in DOMAIN calls["A"] :
        LET call == calls["A"][c]
        IN /\ Len(call.tasks) > maximumDevicesPerStanza["A"]
           /\ AllResolved(call)
           /\ \A i \in DOMAIN call.tasks : call.tasks[i].pc # "skipped"
           /\ call.omemoElement.envelopes # <<>>
           => /\ Len(call.results) = 1
              /\ call.results[1].hasElement
              /\ Len(call.results[1].element.envelopes) <= maximumDevicesPerStanza["A"]

-----------------------------------------------------------------------------
(* Properties of unrespondedReceivedStanzasCount *)

unrespondedReceivedStanzasCount(m, a) ==
    deviceValue(devices[m], a).unrespondedReceivedStanzasCount

\* one step of manager m as C28 has it: a stanza of the peer's device that is decrypted
\* increments the counter, or at the threshold sends an empty message to the device and
\* sets the counter to 0; an envelope created for the device sets the counter to 0
ReceivedCounterStep(m) ==
    LET a == peerOf(m)
        decryptedNow ==
            \E d \in DOMAIN decryptions[m] \cap DOMAIN decryptions'[m] :
                /\ decryptions[m][d].pc = "extracted"
                /\ decryptions'[m][d].results # <<>>
                /\ decryptions'[m][d].results[1].decrypted
                /\ decryptions'[m][d].senderJid = a[1]
                /\ decryptions'[m][d].senderDeviceId = a[2]
        createdNow ==
            IF calls[m] # <<>> /\ calls'[m] # <<>>
            THEN envelopesCreated(m, a)' - envelopesCreated(m, a) ELSE 0
        heartbeatNow ==
            /\ Len(wire') = Len(wire) + 1
            /\ wire'[Len(wire')].stanza.from = ownFullJid(m)
            /\ wire'[Len(wire')].stanza.to.bare = a[1]
            /\ wire'[Len(wire')].original = <<>>
    IN /\ decryptedNow =>
              IF unrespondedReceivedStanzasCount(m, a) =
                     UNRESPONDED_STANZAS_UNTIL_HEARTBEAT_MESSAGE_IS_SENT
              THEN unrespondedReceivedStanzasCount(m, a)' = 0 /\ heartbeatNow
              ELSE unrespondedReceivedStanzasCount(m, a)' =
                       unrespondedReceivedStanzasCount(m, a) + 1
       /\ createdNow > 0 => unrespondedReceivedStanzasCount(m, a)' = 0

\* C28: unrespondedReceivedStanzasCount stays within 0..53, and every step changes it as
\* ReceivedCounterStep says
ReceivedCounter ==
    /\ [](\A m \in Managers : \A a \in DOMAIN devices[m] :
              unrespondedReceivedStanzasCount(m, a) \in
                  0..UNRESPONDED_STANZAS_UNTIL_HEARTBEAT_MESSAGE_IS_SENT)
    /\ [][\A m \in Managers : ReceivedCounterStep(m)]_vars

\* C28 witness: manager B, whose counter for alice/9 was at the threshold, has decrypted
\* one more stanza and sent its empty message
ReceivedCounterWitness ==
    /\ unrespondedReceivedStanzasCount("B", <<"alice", 9>>) = 0
    /\ unrespondedSentStanzasCount("A", <<"bob", 2>>) >
           UNRESPONDED_STANZAS_UNTIL_HEARTBEAT_MESSAGE_IS_SENT
    /\ \E i \in DOMAIN wire :
          /\ wire[i].stanza.from = ownFullJid("B")
          /\ wire[i].original = <<>>

-----------------------------------------------------------------------------
(* The future of extractPayloadDecryptionData under every answer of the library *)

\* the process of the manager has ended in a crash
isCrashed(m) == \E d \in DOMAIN decryptions[m] : decryptions[m][d].pc = "crashed"

\* the answers the library can give for the envelope at the head of the wire: the switch of
\* either branch gets the return values of its own decryption function
isAnswerOfBranch(m, outcome) ==
    /\ wire # <<>>
    /\ LET search == searchEnvelope(parse(Head(wire).xml), ownBareJid(m), ownDevice(m).id)
       IN /\ outcome \in KeyExchangeOutcomes => search.found /\ search.envelope.isUsedForKeyExchange
          /\ outcome = "SG_ERR_NO_SESSION" => search.found /\ ~search.envelope.isUsedForKeyExchange

\* extractSceEnvelope / decryptMessage: the handler given to await reads the result of the
\* default-constructed future, which has none
CanceledFutureAwaited(m, d) ==
    /\ d \in DOMAIN decryptions[m]
    /\ decryptions[m][d].pc = "canceled"
    /\ \/ decryptions' = [decryptions EXCEPT ![m][d].pc = "crashed"]
       \/ \E read \in {EmptyData, EmptyMessageDecryptionData} :
             decryptions' = [decryptions EXCEPT ![m][d].payloadDecryptionData = read,
                                                ![m][d].pc = "extracted"]
    /\ UNCHANGED <<pubSubVars, WITH_OMEMO_V03, devices, omemoStorage, trustLevels,
                   securityPolicy, maximumDevicesPerStanza, calls, now, wire, cipherRuns>>

ExtractionPeerSends == ~isCrashed("B") /\ PeerSends

ExtractionMessageReceived ==
    /\ ~isCrashed("B")
    /\ \E outcome \in ExtractionOutcomes :
          isAnswerOfBranch("B", outcome) /\ DecryptMessage("B", outcome)

ExtractionIqReceived ==
    /\ ~isCrashed("B")
    /\ \E outcome \in ExtractionOutcomes :
          isAnswerOfBranch("B", outcome) /\ DecryptIq("B", outcome)

ExtractionContinued == ~isCrashed("B") /\ DecryptionContinued

ExtractionAwaited == ~isCrashed("B") /\ \E d \in CallIds : CanceledFutureAwaited("B", d)

NextExtract ==
    \/ ExtractionPeerSends
    \/ ExtractionMessageReceived
    \/ ExtractionIqReceived
    \/ ExtractionContinued
    \/ ExtractionAwaited

SpecExtract == InitDecrypt /\ [][NextExtract]_vars

\* the call has entered extractPayloadDecryptionData
isExtracting(dec) == dec.found

\* C29: extractPayloadDecryptionData completes with exactly one result for every answer of
\* the library: no call is left where its future stays pending, finishes without a result
\* or ends the process; at most one result is delivered, a finished future has exactly one,
\* and the result is decryption data only on success, the empty value otherwise
PayloadDecryptionDataFuture ==
    \A d \in DOMAIN decryptions["B"] :
        LET dec == decryptions["B"][d]
        IN isExtracting(dec) =>
               /\ dec.pc \notin {"pending", "canceled", "crashed"}
               /\ Len(dec.extraction.results) <= 1
               /\ dec.extraction.isFinished => Len(dec.extraction.results) = 1
               /\ \A i \in DOMAIN dec.extraction.results :
                      /\ dec.extraction.results[i] # EmptyData => dec.outcome = "SG_SUCCESS"
                      /\ dec.outcome = "SG_SUCCESS"
                             /\ (dec.omemoEnvelope.isUsedForKeyExchange \/ dec.hadSession)
                            => dec.extraction.results[i] # EmptyData
-----------------------------------------------------------------------------
(* Subscription to the device list of a sender whose device is not stored *)

\* the device lists the sender's server may hold
SubscribedDeviceLists ==
    {<<>>, <<DeviceElement(9, "phone")>>, <<DeviceElement(9, ""), DeviceElement(4, "")>>}

\* subscribeToDeviceList: continuation of subscribeToNode
SubscribedToNode(m, s, isError) ==
    /\ s \in DOMAIN subscriptions[m]
    /\ subscriptions[m][s].pc = "subscribeToNode"
    /\ subscriptions' = [subscriptions EXCEPT ![m][s] =
           IF isError THEN [@ EXCEPT !.results = Append(@, "error"), !.pc = "finished"]
           ELSE [@ EXCEPT !.isSubscribed = TRUE, !.pc = "requestDeviceList"]]
    /\ UNCHANGED <<WITH_OMEMO_V03, devices, omemoStorage, trustLevels, securityPolicy,
                   maximumDevicesPerStanza, calls, now, wire, decryptions, cipherRuns,
                   maximumDevicesPerJid, pepService, publishing, updates, ownData, operations>>

\* requestDeviceList: continuation of requestItem
RequestedDeviceListReceived(m, s, isError, deviceList) ==
    /\ s \in DOMAIN subscriptions[m]
    /\ subscriptions[m][s].pc = "requestDeviceList"
    /\ IF isError THEN UNCHANGED <<devices, omemoStorage, updates, pepService>>
       ELSE /\ Len(updates[m]) < MaxUpdates
            /\ applyDeviceList(m, subscriptions[m][s].jid, deviceList)
    /\ subscriptions' = [subscriptions EXCEPT ![m][s] =
           [@ EXCEPT !.itemResult = IF isError THEN "error" ELSE "item",
                     !.deviceList = IF isError THEN <<>> ELSE deviceList,
                     !.pc = "reportFinishedResult"]]
    /\ UNCHANGED <<WITH_OMEMO_V03, trustLevels, securityPolicy, maximumDevicesPerStanza, calls,
                   now, wire, decryptions, cipherRuns, maximumDevicesPerJid, publishing,
                   ownData, operations>>

\* subscribeToDeviceList: continuation of requestDeviceList, reporting mapToSuccess(result)
SubscriptionReported(m, s) ==
    /\ s \in DOMAIN subscriptions[m]
    /\ subscriptions[m][s].pc = "reportFinishedResult"
    /\ subscriptions' = [subscriptions EXCEPT ![m][s] =
           [@ EXCEPT !.results = Append(@, IF subscriptions[m][s].itemResult = "error"
                                           THEN "error" ELSE "success"),
                     !.pc = "finished"]]
    /\ UNCHANGED <<WITH_OMEMO_V03, devices, omemoStorage, trustLevels, securityPolicy,
                   maximumDevicesPerStanza, calls, now, wire, decryptions, cipherRuns,
                   maximumDevicesPerJid, pepService, publishing, updates, ownData, operations>>

SubscriptionAnswered ==
    \E s \in CallIds, isError \in BOOLEAN : SubscribedToNode("B", s, isError)

DeviceListOfSubscriptionReceived ==
    \E s \in CallIds, isError \in BOOLEAN, deviceList \in SubscribedDeviceLists :
        RequestedDeviceListReceived("B", s, isError, deviceList)

SubscriptionFinished == \E s \in CallIds : SubscriptionReported("B", s)

NextSubscribe ==
    \/ PeerSends
    \/ MessageReceived
    \/ IqReceived
    \/ DecryptionContinued
    \/ SubscriptionAnswered
    \/ DeviceListOfSubscriptionReceived
    \/ SubscriptionFinished

SpecSubscribe == InitDecrypt /\ [][NextSubscribe]_vars

\* the step is decryptMessage or decryptIq of manager m on the stanza at the head of the wire
isDecryptionBegun(m) ==
    /\ wire # <<>>
    /\ decryptions'[m] # <<>>
    /\ decryptions'[m] # decryptions[m]
    /\ decryptions'[m][Len(decryptions'[m])].stanza = Head(wire).stanza
    /\ decryptions'[m][Len(decryptions'[m])].original = Head(wire).original

\* what a step does to the subscriptions of manager m
NewDeviceListSubscriptionStep(m) ==
    /\ isDecryptionBegun(m) =>
          LET dec == decryptions'[m][Len(decryptions'[m])]
          IN IF dec.found /\ senderOf(dec) \notin DOMAIN devices[m]
             THEN /\ Len(subscriptions'[m]) = Len(subscriptions[m]) + 1
                  /\ SubSeq(subscriptions'[m], 1, Len(subscriptions[m])) = subscriptions[m]
                  /\ subscriptions'[m][Len(subscriptions'[m])].jid = dec.senderJid
                  /\ subscriptions'[m][Len(subscriptions'[m])].pc = "subscribeToNode"
             ELSE subscriptions'[m] = subscriptions[m]
    /\ ~isDecryptionBegun(m) => Len(subscriptions'[m]) = Len(subscriptions[m])
    /\ \A s \in DOMAIN subscriptions[m] :
          LET before == subscriptions[m][s]
              after == subscriptions'[m][s]
          IN /\ before.pc = "subscribeToNode" /\ after.isSubscribed =>
                    after.pc = "requestDeviceList"
             /\ before.pc = "requestDeviceList" /\ after.itemResult = "item" =>
                    \A i \in DOMAIN after.deviceList :
                        /\ <<after.jid, after.deviceList[i].id>> \in DOMAIN devices'[m]
                        /\ devices'[m][<<after.jid, after.deviceList[i].id>>].label
                               = after.deviceList[i].label
                        /\ devices'[m][<<after.jid, after.deviceList[i].id>>]
                               .removalFromDeviceListDate = 0

\* C30: when a stanza with an envelope for this device arrives from a (jid, deviceId) that
\* is not in the device registry, a subscription to the device list of jid is requested;
\* when the subscription succeeds the device list of jid is requested, and the devices of
\* the received list are in the registry; when the sending device is in the registry, and
\* in every other step, no subscription is requested
NewDeviceListSubscription ==
    /\ [](\A m \in Managers : \A s \in DOMAIN subscriptions[m] :
             subscriptions[m][s].isSubscribed <=>
                 subscriptions[m][s].pc \in {"requestDeviceList", "reportFinishedResult"}
                 \/ (subscriptions[m][s].pc = "finished"
                        /\ subscriptions[m][s].itemResult # "none"))
    /\ [][\A m \in Managers : NewDeviceListSubscriptionStep(m)]_vars

\* the device list of a sender that was not in the registry has been requested and stored
NewDeviceListSubscriptionWitness ==
    \E s \in DOMAIN subscriptions["B"] :
          /\ subscriptions["B"][s].pc = "finished"
          /\ subscriptions["B"][s].results = <<"success">>
          /\ Len(subscriptions["B"][s].deviceList) = 2
          /\ <<"alice", 4>> \in DOMAIN devices["B"]
-----------------------------------------------------------------------------
(* Empty OMEMO messages *)

\* decryptMessage found an envelope for this device in a stanza without payload
isEmptyOmemoMessage(dec) == dec.found /\ dec.isMessageStanza /\ dec.omemoPayload = EmptyBytes

\* manager m has sent the sender of the call an empty OMEMO message that is no key exchange
hasSentEmptyMessage(m, dec) ==
    \E i \in DOMAIN wire :
        /\ wire[i].stanza.from = ownFullJid(m)
        /\ wire[i].stanza.to.bare = dec.senderJid
        /\ wire[i].original = <<>>
        /\ \A k \in DOMAIN parse(wire[i].xml).envelopes :
               ~parse(wire[i].xml).envelopes[k].envelope.isUsedForKeyExchange

\* C31: decryptMessage on a stanza with an envelope for this device and without payload
\* always completes (it is never left where nothing reports its result), and it reports no
\* decrypted message; a key exchange that is decrypted establishes a session; an empty
\* message is sent back exactly when the key exchange envelope of a message stanza was
\* decrypted, and never when the key exchange envelope arrived in an IQ stanza
EmptyOmemoMessage ==
    \A d \in DOMAIN decryptions["B"] :
        LET dec == decryptions["B"][d]
        IN /\ isEmptyOmemoMessage(dec) =>
                  /\ dec.pc \notin {"pending", "canceled", "crashed"}
                  /\ dec.pc = "returned" => dec.results = <<Nothing>>
                  /\ hasSentEmptyMessage("B", dec) <=>
                         dec.omemoEnvelope.isUsedForKeyExchange /\ dec.outcome = "SG_SUCCESS"
                  /\ dec.omemoEnvelope.isUsedForKeyExchange /\ dec.outcome = "SG_SUCCESS" =>
                         loadSession(devices["B"], senderOf(dec)) # <<>>
           /\ dec.found /\ ~dec.isMessageStanza /\ dec.omemoEnvelope.isUsedForKeyExchange =>
                  ~hasSentEmptyMessage("B", dec)
-----------------------------------------------------------------------------
(* Order of the publications of publishOmemoData *)

hasDeviceListRequest(call) == \E request \in call.requests : request[1] = "deviceList"

\* what a step does to the publishOmemoData call of manager m
PublicationOrderStep(m) ==
    LET before == publishing[m]
        after == publishing'[m]
    IN /\ hasDeviceListRequest(after) /\ ~hasDeviceListRequest(before) =>
              /\ before.phase = "bundle"
              /\ before.pc \in {"publishItem", "publishItemWithOptions"}
              /\ after.round = before.round
              /\ after.bundlePublications = before.bundlePublications + 1
       /\ before.phase = "bundle" /\ before.pc \in PubSubRequests
             /\ after.bundlePublications = before.bundlePublications
             /\ after.round = before.round /\ after.results # before.results =>
              /\ after.results = <<FALSE>>
              /\ ~hasDeviceListRequest(after)
              /\ after.pc = "none"

\* C32: in publishOmemoData a request of publishDeviceElement is issued only by the step
\* in which the publication of this device's bundle succeeded, so the service holds the
\* bundle whenever the device list is requested or published; if the publication of the
\* bundle fails, no request for the device list is made and the call reports false
PublicationOrder ==
    /\ [](\A m \in Managers :
             hasDeviceListRequest(publishing[m]) => ownBundleItems(m) # {})
    /\ [][\A m \in Managers : PublicationOrderStep(m)]_vars

\* a call published the bundle and then the device list, and reported true
PublicationOrderWitness ==
    /\ publishing["A"].results = <<TRUE>>
    /\ publishing["A"].bundlePublications = 1
    /\ \E request \in publishing["A"].requests :
          request[1] = "deviceList" /\ request[2] \in {"publishItem", "publishItemWithOptions"}
    /\ ownBundleItems("A") # {}

-----------------------------------------------------------------------------
(* Calls of encryptStanza that run at the same time on manager A *)

\* what manager A knows of bob/2 when the calls begin: a device without key id, or a device
\* with a trusted key that has not responded to a number of stanzas
ConcurrentKnownOf ==
    {Known(<<"bob", 2>>, FALSE, FALSE, 0, 0, "Undecided")}
        \cup {Known(<<"bob", 2>>, TRUE, s, sent, 0, "Authenticated") :
                 s \in BOOLEAN,
                 sent \in {0, UNRESPONDED_STANZAS_UNTIL_ENCRYPTION_IS_STOPPED - 1,
                           UNRESPONDED_STANZAS_UNTIL_ENCRYPTION_IS_STOPPED}}

InitConcurrent ==
    /\ WITH_OMEMO_V03 \in BOOLEAN
    /\ InitPubSubIdle
    /\ \E bob2 \in ConcurrentKnownOf, hasOther \in BOOLEAN :
          LET known == [a \in {<<"bob", 2>>} \cup (IF hasOther THEN {<<"bob", 3>>} ELSE {}) |->
                           IF a = <<"bob", 2>> THEN bob2
                           ELSE Known(a, TRUE, TRUE, 0, 0, "AutomaticallyTrusted")]
          IN /\ devices = [m \in Managers |->
                              IF m = "A" THEN registryOf(known) ELSE NoRegistry]
             /\ omemoStorage = devices
             /\ trustLevels = [m \in Managers |-> IF m = "A" THEN trustOf(known) ELSE NoTrust]
    /\ securityPolicy = [m \in Managers |-> "Toakafa"]
    /\ maximumDevicesPerStanza = [m \in Managers |-> DEVICES_PER_STANZA_MAX]
    /\ calls = [m \in Managers |-> <<>>]
    /\ now = 14
    /\ wire = <<>>
    /\ decryptions = [m \in Managers |-> <<>>]
    /\ cipherRuns = {}

\* a further call of encryptStanza begins while the earlier ones are suspended
EncryptConcurrently ==
    /\ Len(calls["A"]) < MaxConcurrentCalls
    /\ EncryptStanza("A", QueryIq, <<"bob">>, ACCEPTED_TRUST_LEVELS, 1, 1)

\* a future of one of the calls finishes and its continuation runs
ContinueConcurrently ==
    \/ \E c \in 1..MaxConcurrentCalls, i \in TaskIds, deviceBundle \in Bundles :
           DeviceBundleFetched("A", c, i, deviceBundle)
    \/ \E c \in 1..MaxConcurrentCalls, i \in TaskIds, libOk \in BOOLEAN :
           TrustLevelOfBundleKeyRetrieved("A", c, i, libOk)
    \/ \E c \in 1..MaxConcurrentCalls, i \in TaskIds, libOk \in BOOLEAN :
           KeyStoredDependingOnSecurityPolicy("A", c, i, libOk)
    \/ \E c \in 1..MaxConcurrentCalls, i \in TaskIds, libOk \in BOOLEAN :
           TrustLevelRetrieved("A", c, i, libOk)
    \/ \E c \in 1..MaxConcurrentCalls, i \in TaskIds, deviceBundle \in Bundles,
          libOk \in BOOLEAN :
           DeviceBundleForSessionFetched("A", c, i, deviceBundle, libOk)

NextConcurrent == EncryptConcurrently \/ ContinueConcurrently

SpecConcurrent == InitConcurrent /\ [][NextConcurrent]_vars

\* C33: under any interleaving of calls of encryptStanza that run at the same time, the
\* unrespondedSentStanzasCount of a device never exceeds
\* UNRESPONDED_STANZAS_UNTIL_ENCRYPTION_IS_STOPPED
ThresholdUnderConcurrency ==
    \A a \in DOMAIN devices["A"] :
        devices["A"][a].unrespondedSentStanzasCount <=
            UNRESPONDED_STANZAS_UNTIL_ENCRYPTION_IS_STOPPED

-----------------------------------------------------------------------------
(* Trust decisions taken while calls of encryptStanza are suspended *)

\* QXmppOmemoManager::setTrustLevel for one stored key: the user distrusts the key
TrustLevelChanged(m) ==
    /\ \E key \in DOMAIN trustLevels[m] :
          /\ trustLevels[m][key] # "ManuallyDistrusted"
          /\ trustLevels' = [trustLevels EXCEPT ![m][key] = "ManuallyDistrusted"]
    /\ UNCHANGED <<pubSubVars, WITH_OMEMO_V03, devices, omemoStorage, securityPolicy,
                   maximumDevicesPerStanza, calls, now, wire, decryptions, cipherRuns>>

NextTrustChange == NextConcurrent \/ TrustLevelChanged("A")

SpecTrustChange == InitConcurrent /\ [][NextTrustChange]_vars

\* the trust level of the key of device a as manager m stores it
storedTrustLevel(trust, devs, a) ==
    IF a \in DOMAIN devs THEN trustLevelOf(trust, a[1], devs[a].keyId) ELSE "Undecided"

\* what a step does to the elements of the calls of manager m: an envelope is added for a
\* device only while the trust level of its key is one of the accepted levels of the call
EnvelopeOnlyWhileTrustedStep(m) ==
    \A c \in DOMAIN calls[m] \cap DOMAIN calls'[m], a \in AllAddr :
        Len(envelopesFor(calls'[m][c].omemoElement, a)) >
                Len(envelopesFor(calls[m][c].omemoElement, a)) =>
            testFlag(calls[m][c].acceptedTrustLevels,
                     storedTrustLevel(trustLevels'[m], devices'[m], a))

\* C34: if the trust level of a device's key is changed to a level outside
\* acceptedTrustLevels while a call of encryptStanza is suspended for that device, after
\* the trust level was read and before the envelope is created, no envelope for that
\* device is added to the element of the call
EnvelopeOnlyWhileTrusted == [][EnvelopeOnlyWhileTrustedStep("A")]_vars

-----------------------------------------------------------------------------
(* Frame of encryptStanza on the counters of the devices *)

\* the envelopes of element hold the entry
hasEnvelope(element, entry) ==
    \E k \in DOMAIN element.envelopes : element.envelopes[k] = entry

\* the envelopes a call created are those of the element it returns: a call that has
\* reported has reported an element with every envelope it created, and a call whose
\* futures are all resolved and that created an envelope has reported
createdEnvelopesReturned(call) ==
    /\ call.results # <<>> =>
           \A k \in DOMAIN call.omemoElement.envelopes :
               /\ call.results[1].hasElement
               /\ hasEnvelope(call.results[1].element, call.omemoElement.envelopes[k])
    /\ AllResolved(call) /\ call.omemoElement.envelopes # <<>> => call.results # <<>>

\* what a step of encryptStanza does to the counters of the devices of manager m: they
\* change only for a device for which the step adds an envelope to the element of a call
CounterFrameStep(m) ==
    \A a \in DOMAIN devices[m] \cap DOMAIN devices'[m] :
        \/ /\ devices'[m][a].unrespondedSentStanzasCount =
                  devices[m][a].unrespondedSentStanzasCount
           /\ devices'[m][a].unrespondedReceivedStanzasCount =
                  devices[m][a].unrespondedReceivedStanzasCount
        \/ \E c \in DOMAIN calls[m] \cap DOMAIN calls'[m] :
               Len(envelopesFor(calls'[m][c].omemoElement, a)) >
                   Len(envelopesFor(calls[m][c].omemoElement, a))

\* C40: a call of encryptStanza increments the unrespondedSentStanzasCount of a device and
\* resets its unrespondedReceivedStanzasCount only if an envelope for that device is part
\* of the element the call returns; every other device keeps its counters, all devices do
\* when the call yields no element
CounterFrame ==
    /\ [](\A c \in DOMAIN calls["A"] : createdEnvelopesReturned(calls["A"][c]))
    /\ [][CounterFrameStep("A")]_vars

-----------------------------------------------------------------------------
(* Devices that stay absent from the device list *)

\* ManagerPrivate::handleIrregularDeviceListChanges for the device list of a contact: every
\* stored device of the contact is stamped with the current date
handleIrregularDeviceListChanges(st, deviceOwnerJid, currentDate) ==
    LET stamped(d) == [d EXCEPT !.removalFromDeviceListDate = currentDate]
        ownerDevices == {a \in DOMAIN st.devs : a[1] = deviceOwnerJid}
    IN [st EXCEPT !.devs = [a \in DOMAIN @ |->
                               IF a \in ownerDevices THEN stamped(@[a]) ELSE @[a]],
                  !.storage = [a \in DOMAIN @ \cup ownerDevices |->
                                  IF a \in ownerDevices THEN stamped(st.devs[a]) ELSE @[a]]]

\* the device list item or the device list node of a contact was removed
DeviceListLost(m, deviceOwnerJid) ==
    /\ deviceOwnerJid # ownBareJid(m)
    /\ LET st == handleIrregularDeviceListChanges(
                     [devs |-> devices[m], storage |-> omemoStorage[m]], deviceOwnerJid, now)
       IN /\ devices' = [devices EXCEPT ![m] = st.devs]
          /\ omemoStorage' = [omemoStorage EXCEPT ![m] = st.storage]
    /\ UNCHANGED <<WITH_OMEMO_V03, trustLevels, securityPolicy, maximumDevicesPerStanza, calls,
                   now, wire, decryptions, cipherRuns, pubSubVars>>

\* manager A receives a device list of the contact
ContactDeviceListReceived ==
    \E deviceList \in ReceivedDeviceLists("bob") : UpdateDevices("A", "bob", deviceList)

InitAbsence ==
    /\ InitDevices
    /\ maximumDevicesPerJid["A"] = DEVICES_PER_JID_MAX

NextAbsence == ContactDeviceListReceived \/ Tick \/ Sweep \/ DeviceListLost("A", "bob")

SpecAbsence == InitAbsence /\ [][NextAbsence]_vars

\* what a step does to the removal timestamp of a device of manager m that has one: the
\* device is erased, or is back in the device list, or keeps the timestamp
RemovalDateKeptStep(m) ==
    \A a \in DOMAIN devices[m] \cap DOMAIN devices'[m] :
        /\ devices[m][a].removalFromDeviceListDate # 0
        /\ devices'[m][a].removalFromDeviceListDate # 0
        => devices'[m][a].removalFromDeviceListDate = devices[m][a].removalFromDeviceListDate

\* C35: once a device has a removal timestamp, later device list updates (updateDevices,
\* handleIrregularDeviceListChanges) that still omit the device do not move the timestamp
\* forward, so that the device is erased by the first sweep that runs more than
\* DEVICE_REMOVAL_INTERVAL after its first disappearance
RemovalDateKept == [][RemovalDateKeptStep("A")]_vars

-----------------------------------------------------------------------------
(* Key exchanges that fail *)

\* the return values of session_cipher_decrypt_pre_key_signal_message that the switch of
\* the key exchange branch reports as failures
FailedKeyExchangeOutcomes ==
    {"SG_ERR_INVALID_MESSAGE", "SG_ERR_DUPLICATE_MESSAGE", "SG_ERR_LEGACY_MESSAGE"}
        \cup KeyExchangeOutcomes

\* what the step that begins a decryption on manager m does to the record of the sender
\* device when the decryption of the key exchange envelope fails
FailedKeyExchangeStep(m) ==
    \A d \in DOMAIN decryptions'[m] \ DOMAIN decryptions[m] :
        LET dec == decryptions'[m][d]
            a == senderOf(dec)
        IN /\ dec.found
           /\ dec.omemoEnvelope.isUsedForKeyExchange
           /\ dec.outcome \in FailedKeyExchangeOutcomes
           => /\ a \in DOMAIN devices'[m] <=> a \in DOMAIN devices[m]
              /\ a \in DOMAIN devices[m] =>
                     /\ devices'[m][a].keyId = devices[m][a].keyId
                     /\ devices'[m][a].session = devices[m][a].session

\* C36: when the decryption of a key exchange envelope fails (invalid, duplicate or legacy
\* message, unknown pre key id, invalid or untrusted key), the key id and the session
\* stored for the sender device are those of before the call, and no device record is
\* created for a sender that was unknown
FailedKeyExchange == [][FailedKeyExchangeStep("B")]_vars

-----------------------------------------------------------------------------
(* Address of a requested device bundle *)

\* the node requestDeviceBundle names: ns_omemo_bundles:<deviceId> or ns_omemo_2_bundles
requestedBundlesNode(deviceId) ==
    IF WITH_OMEMO_V03 THEN <<"bundles", deviceId>> ELSE <<"bundles", 0>>

\* the item ids requestDeviceBundle names: none (every item of the node) or "current"
requestedBundleItemIds(deviceId) == IF WITH_OMEMO_V03 THEN {} ELSE {"current"}

\* QXmppPubSubManager::requestItem: what the request may yield, the first of the items the
\* service returns for the item ids (for every item if no id is named), or ItemNotFound
requestItem(nodes, node, itemIds) ==
    LET items == nodeItems(nodes, node)
        returned == {i \in DOMAIN items : itemIds = {} \/ i \in itemIds}
    IN IF returned = {} THEN {[isError |-> TRUE, item |-> <<>>]}
       ELSE {[isError |-> FALSE, item |-> items[i]] : i \in returned}

\* ManagerPrivate::requestDeviceBundle: the bundles the future may report
requestDeviceBundle(nodes, deviceId) ==
    {IF result.isError THEN NoBundle ELSE result.item.deviceBundle :
        result \in requestItem(nodes, requestedBundlesNode(deviceId),
                               requestedBundleItemIds(deviceId))}

\* C37: requestDeviceBundle(jid, deviceId) addresses the node and the item under which the
\* device stores its bundle through publishDeviceBundleItem and deviceBundleItem: once
\* manager A has published its bundle, a request for the bundle of its device id names the
\* node of the publication and yields that bundle
RequestedBundleAddress ==
    ownBundleItems("A") # {} =>
        /\ requestedBundlesNode(ownDevice("A").id) = deviceBundlesNode("A")
        /\ requestDeviceBundle(pepService.nodes, ownDevice("A").id) =
               {DeviceBundle(<<ownBareJid("A"), ownDevice("A").id>>, TRUE)}

-----------------------------------------------------------------------------
(* Number of devices stored for a JID *)

\* C38: in every reachable state the number of devices stored for any one JID is at most
\* maximumDevicesPerJid
DevicesPerJidBounded ==
    \A m \in Managers, jid \in {"alice", "bob"} :
        Len(devicesOfJid(devices[m], jid)) <= maximumDevicesPerJid[m]

-----------------------------------------------------------------------------
(* resetOwnDevice and resetAll *)

ResetOperations == {"resetOwnDevice", "resetAll"}

\* QFutureInterface of a reset: a report on a finished interface is ignored
reportReset(call, result) ==
    IF call.results # <<>> THEN [call EXCEPT !.pc = "none"]
    ELSE [call EXCEPT !.results = Append(@, result), !.pc = "none"]

\* omemoStorage->resetAll() on the stored own device and key pairs
resetOwnStorage(own) == [own EXCEPT !.omemoStorage = OwnDataBeforeSetup.omemoStorage]

\* ownDevice = {}; preKeyPairs.clear(); signedPreKeyPairs.clear(); deviceBundle = {}
clearOwnData(own) ==
    [own EXCEPT !.ownDevice = OwnDataBeforeSetup.ownDevice,
                !.preKeyPairs = {},
                !.signedPreKeyPairs = <<>>,
                !.deviceBundle = OwnDataBeforeSetup.deviceBundle]

\* what the PEP service does with deletePepNode and retractPepItem
deletedNode(nodes, node) == [n \in DOMAIN nodes \ {node} |-> nodes[n]]

retractedItem(nodes, node, itemId) ==
    [n \in DOMAIN nodes |->
        IF n = node THEN [i \in DOMAIN nodes[n] \ {itemId} |-> nodes[n][i]] ELSE nodes[n]]

\* ManagerPrivate::deleteDeviceElement: what the service holds once the request is done
deleteDeviceElement(nodes, m, devs) ==
    IF otherOwnDevices(devs, m) = {} THEN deletedNode(nodes, deviceListNode)
    ELSE publishedItem(nodes, deviceListNode, deviceListItem(m, devs, FALSE))

\* ManagerPrivate::deleteDeviceBundle: what the service holds once the request is done
deleteDeviceBundle(nodes, m, devs) ==
    IF WITH_OMEMO_V03 \/ otherOwnDevices(devs, m) = {}
    THEN deletedNode(nodes, deviceBundlesNode(m))
    ELSE retractedItem(nodes, deviceBundlesNode(m), ToString(ownDevice(m).id))

\* the bundle nodes resetAll deletes in the OMEMO 0.3 build: those of the other own devices
bundleNodesOfOtherOwnDevices(m, devs) == {<<"bundles", a[2]>> : a \in otherOwnDevices(devs, m)}

\* ManagerPrivate::resetOwnDevice and ManagerPrivate::resetAll up to the first future;
\* before, not read by the code, is what the storages held when the call began
Reset(m, op) ==
    /\ operations[m] = NoOperation
    /\ operations' = [operations EXCEPT ![m] =
           [pc |-> "trustManager->resetAll", op |-> op, results |-> <<>>, pending |-> {},
            before |-> [omemoStorage |-> omemoStorage[m],
                        ownStorage |-> ownData[m].omemoStorage,
                        trustLevels |-> trustLevels[m]]]]
    /\ UNCHANGED <<WITH_OMEMO_V03, devices, omemoStorage, trustLevels, securityPolicy,
                   maximumDevicesPerStanza, calls, now, wire, decryptions, cipherRuns,
                   maximumDevicesPerJid, pepService, publishing, updates, ownData,
                   subscriptions>>

\* the continuation of trustManager->resetAll
TrustStorageReset(m) ==
    /\ operations[m].pc = "trustManager->resetAll"
    /\ trustLevels' = [trustLevels EXCEPT ![m] = NoTrust]
    /\ operations' = [operations EXCEPT ![m].pc = "omemoStorage->resetAll"]
    /\ UNCHANGED <<WITH_OMEMO_V03, devices, omemoStorage, securityPolicy,
                   maximumDevicesPerStanza, calls, now, wire, decryptions, cipherRuns,
                   maximumDevicesPerJid, pepService, publishing, updates, ownData,
                   subscriptions>>

\* the continuation of omemoStorage->resetAll
OmemoStorageReset(m) ==
    /\ operations[m].pc = "omemoStorage->resetAll"
    /\ omemoStorage' = [omemoStorage EXCEPT ![m] = NoRegistry]
    /\ ownData' = [ownData EXCEPT ![m] = resetOwnStorage(@)]
    /\ operations' = [operations EXCEPT ![m].pc =
           IF operations[m].op = "resetOwnDevice" THEN "deleteDeviceElement"
           ELSE "deleteDevicesNode"]
    /\ UNCHANGED <<WITH_OMEMO_V03, devices, trustLevels, securityPolicy,
                   maximumDevicesPerStanza, calls, now, wire, decryptions, cipherRuns,
                   maximumDevicesPerJid, pepService, publishing, updates, subscriptions>>

\* the devices and the own data are cleared in memory
cleared(m) ==
    /\ devices' = [devices EXCEPT ![m] = NoRegistry]
    /\ ownData' = [ownData EXCEPT ![m] = clearOwnData(@)]

\* the continuations of the PubSub requests of resetOwnDevice and resetAll
ResetRequestAnswered(m, isDone) ==
    LET call == operations[m]
        nodes == pepService.nodes
    IN /\ call.pc \in {"deleteDeviceElement", "deleteDeviceBundle", "deleteDevicesNode",
                       "deleteBundlesNode"}
       /\ CASE call.pc = "deleteDeviceElement" ->
                   /\ pepService' = [pepService EXCEPT !.nodes =
                          IF isDone THEN deleteDeviceElement(nodes, m, devices[m]) ELSE @]
                   /\ operations' = [operations EXCEPT ![m] =
                          IF isDone THEN [call EXCEPT !.pc = "deleteDeviceBundle"]
                          ELSE reportReset(call, FALSE)]
                   /\ UNCHANGED <<devices, ownData>>
            [] call.pc = "deleteDeviceBundle" ->
                   /\ pepService' = [pepService EXCEPT !.nodes =
                          IF isDone THEN deleteDeviceBundle(nodes, m, devices[m]) ELSE @]
                   /\ operations' = [operations EXCEPT ![m] = reportReset(call, isDone)]
                   /\ IF isDone THEN cleared(m) ELSE UNCHANGED <<devices, ownData>>
            [] call.pc = "deleteDevicesNode" /\ WITH_OMEMO_V03 ->
                   LET pending == bundleNodesOfOtherOwnDevices(m, devices[m])
                   IN /\ pepService' = [pepService EXCEPT !.nodes =
                             IF isDone THEN deletedNode(nodes, deviceListNode) ELSE @]
                      /\ operations' = [operations EXCEPT ![m] =
                             IF isDone
                             THEN [reportReset(call, TRUE) EXCEPT
                                      !.pending = pending,
                                      !.pc = IF pending = {} THEN "none"
                                             ELSE "deleteBundleNodes"]
                             ELSE [call EXCEPT !.pc = "none"]]
                      /\ IF isDone THEN cleared(m) ELSE UNCHANGED <<devices, ownData>>
            [] call.pc = "deleteDevicesNode" /\ ~WITH_OMEMO_V03 ->
                   /\ pepService' = [pepService EXCEPT !.nodes =
                          IF isDone THEN deletedNode(nodes, deviceListNode) ELSE @]
                   /\ operations' = [operations EXCEPT ![m] =
                          IF isDone THEN [call EXCEPT !.pc = "deleteBundlesNode"]
                          ELSE reportReset(call, FALSE)]
                   /\ UNCHANGED <<devices, ownData>>
            [] call.pc = "deleteBundlesNode" ->
                   /\ pepService' = [pepService EXCEPT !.nodes =
                          IF isDone THEN deletedNode(nodes, <<"bundles", 0>>) ELSE @]
                   /\ operations' = [operations EXCEPT ![m] = reportReset(call, isDone)]
                   /\ IF isDone THEN cleared(m) ELSE UNCHANGED <<devices, ownData>>
       /\ UNCHANGED <<WITH_OMEMO_V03, omemoStorage, trustLevels, securityPolicy,
                      maximumDevicesPerStanza, calls, now, wire, decryptions, cipherRuns,
                      maximumDevicesPerJid, publishing, updates, subscriptions>>

\* resetAll in the OMEMO 0.3 build: the continuation of the deletion of one bundle node
BundleNodeDeleted(m, node, isDone) ==
    LET call == operations[m]
        rest == [call EXCEPT !.pending = @ \ {node}]
    IN /\ call.pc = "deleteBundleNodes"
       /\ node \in call.pending
       /\ pepService' = [pepService EXCEPT !.nodes =
              IF isDone THEN deletedNode(@, node) ELSE @]
       /\ operations' = [operations EXCEPT ![m] =
              [(IF isDone THEN rest ELSE reportReset(rest, FALSE)) EXCEPT
                  !.pc = IF rest.pending = {} THEN "none" ELSE "deleteBundleNodes"]]
       /\ UNCHANGED <<WITH_OMEMO_V03, devices, omemoStorage, trustLevels, securityPolicy,
                      maximumDevicesPerStanza, calls, now, wire, decryptions, cipherRuns,
                      maximumDevicesPerJid, publishing, updates, ownData, subscriptions>>

\* what manager A holds when it is reset: own devices and devices of the contact
InitResetKnown ==
    {f \in UNION {[S -> UNION {InitKnownOf(a) : a \in S}] :
                     S \in SUBSET {<<"alice", 1>>, <<"bob", 2>>}} :
        \A a \in DOMAIN f : f[a] \in InitKnownOf(a) /\ f[a].device.keyId # <<>>}

InitReset ==
    /\ WITH_OMEMO_V03 \in BOOLEAN
    /\ \E known \in InitResetKnown :
          /\ devices = [m \in Managers |-> IF m = "A" THEN registryOf(known) ELSE NoRegistry]
          /\ trustLevels = [m \in Managers |-> IF m = "A" THEN trustOf(known) ELSE NoTrust]
    /\ omemoStorage = devices
    /\ securityPolicy = [m \in Managers |-> "Toakafa"]
    /\ maximumDevicesPerStanza = [m \in Managers |-> DEVICES_PER_STANZA_MAX]
    /\ calls = [m \in Managers |-> <<>>]
    /\ now = FirstKeyDate
    /\ wire = <<>>
    /\ decryptions = [m \in Managers |-> <<>>]
    /\ cipherRuns = {}
    /\ maximumDevicesPerJid = [m \in Managers |-> DEVICES_PER_JID_MAX]
    /\ pepService =
           [features |-> PepFeatures,
            nodes |-> publishedItem(
                          publishedItem(<<>>, deviceListNode,
                                        deviceListItem("A", devices["A"], TRUE)),
                          deviceBundlesNode("A"), deviceBundleItem("A", NoPublication))]
    /\ publishing = [m \in Managers |-> NoPublication]
    /\ updates = [m \in Managers |-> <<>>]
    /\ ownData = [m \in Managers |->
                     IF m = "A"
                     THEN [OwnDataAfterSetup(FirstKeyDate) EXCEPT
                              !.ownDevice.id = ownDevice("A").id,
                              !.omemoStorage.ownDevice.id = ownDevice("A").id]
                     ELSE NoOwnData]
    /\ operations = [m \in Managers |-> NoOperation]
    /\ subscriptions = [m \in Managers |-> <<>>]

ResetCalled == \E op \in ResetOperations : Reset("A", op)

StorageReset == TrustStorageReset("A") \/ OmemoStorageReset("A")

ResetAnswered ==
    \/ \E isDone \in BOOLEAN : ResetRequestAnswered("A", isDone)
    \/ \E node \in {<<"bundles", id>> : id \in {1, 4, 9}}, isDone \in BOOLEAN :
           BundleNodeDeleted("A", node, isDone)

NextReset == ResetCalled \/ StorageReset \/ ResetAnswered

SpecReset == InitReset /\ [][NextReset]_vars

\* the devices, the own device, the key pairs and the bundle of manager m are cleared in
\* memory and in storage
isResetDone(m) ==
    /\ devices[m] = NoRegistry
    /\ omemoStorage[m] = NoRegistry
    /\ ownData[m] = resetOwnStorage(clearOwnData(ownData[m]))

\* C39: resetOwnDevice and resetAll each report exactly one boolean (a call is never left
\* with nothing under way and nothing reported); after true the own device, the pre keys,
\* the signed pre keys, the bundle and all devices are cleared in memory and in storage;
\* after false neither the OMEMO storage nor the trust storage is wiped
ResetAllOrNothing ==
    \A m \in Managers :
        LET call == operations[m]
        IN call # NoOperation =>
              /\ call.pc = "none" => Len(call.results) = 1
              /\ call.results = <<TRUE>> => isResetDone(m)
              /\ call.results = <<FALSE>> =>
                     /\ omemoStorage[m] = call.before.omemoStorage
                     /\ ownData[m].omemoStorage = call.before.ownStorage
                     /\ trustLevels[m] = call.before.trustLevels
====
